---------------------------- MODULE Spec2Model ----------------------------
(***************************************************************************)
(* Activity capture and persistence pipeline of ownmon: the in-memory      *)
(* session state machine (ActivityStore), the input counter ring, the      *)
(* poller's counter flush and the chained append to the session log.       *)
(*                                                                         *)
(* Instants are whole seconds of the UTC clock.  Every Utc::now() of the   *)
(* code is a separate read of the clock: inside one handler a later read   *)
(* returns the same instant or a later one.                                *)
(***************************************************************************)
EXTENDS Integers, Sequences, FiniteSets, TLC

(* ------------------------------ bounds -------------------------------- *)

\* Last instant of the modelled clock.
MaxTime == 5

\* Completed sessions after which no further store operation is started.
MaxHistory == 2

\* Largest total of the counts one session accumulates.
MaxCount == 1

\* Value of config key min_session_duration_secs the store reads.
MinSessionDuration == 1

\* Value of config key afk_threshold_secs the store reads.
AfkThreshold == 1

\* Sessions handed to persistence after which no further session is started.
MaxLog == 3

\* Input events the hooks count over a run of the poller.
MaxEvents == 2

\* Threads that hold the store's read lock at the same time.
MaxReaders == 1

\* Media sessions in the history after which no media operation is started.
MaxMedia == 2

\* Completed sessions up to which input is reported in the persistence runs.
MaxCounted == 1

\* Seconds of one calendar day.
DayLength == 2

\* Poll cycles between two periodic saves.
DB_SAVE_INTERVAL == 2

\* max_sessions: the cap of the two in-memory histories.
MaxSessions == 1

\* Seconds of the runs that fill and drain the pending queues.
MaxQueueTime == 2

\* Longest pattern and longest text given to pattern_matches.
MaxPattern == 4

MaxText == 3

\* Longest blacklist, and longest pattern and process name in its check.
MaxEntries == 2

MaxEntry == 2

\* Longest list of hashes given to build_merkle_root.
MaxHashes == 5

\* Poll cycles completed after which the loop goes on only to its break.
MaxCycles == 4

\* Seconds of the runs of the poll cycle.
MaxCycleTime == 1

\* Keys the hook counts over a run of the poll cycle.
MaxCycleEvents == 1

\* Seconds of the runs in which a reader looks at the store.
MaxReaderTime == 3

(* ----------------------------- data types ----------------------------- *)

\* Option<T>: None is the empty sequence, Some(x) the one-element sequence.
None == <<>>

Some(x) == <<x>>

IsSome(o) == o /= <<>>

Unwrap(o) == o[1]

Max(a, b) == IF a >= b THEN a ELSE b

\* The foreground windows the poller can sample: (hwnd, pid, process, title).
Windows ==
    { [hwnd |-> 1, pid |-> 100, process_name |-> "a.exe", window_title |-> "A"],
      [hwnd |-> 2, pid |-> 200, process_name |-> "b.exe", window_title |-> "B"] }

ProcessNames == { w.process_name : w \in Windows }

\* WindowSession::new: a session starting at instant t, no end, no counts.
WindowSession(w, t) ==
    [ window_handle |-> w.hwnd,
      process_id    |-> w.pid,
      process_name  |-> w.process_name,
      window_title  |-> w.window_title,
      start_time    |-> t,
      end_time      |-> None,
      keystrokes    |-> 0,
      mouse_clicks  |-> 0,
      mouse_scrolls |-> 0,
      is_idle       |-> FALSE ]

\* The window identity a session was created with.
WindowOf(s) ==
    [ hwnd |-> s.window_handle, pid |-> s.process_id,
      process_name |-> s.process_name, window_title |-> s.window_title ]

\* WindowSession::duration_secs at instant t (t is read only while active).
duration_secs(s, t) ==
    IF IsSome(s.end_time)
    THEN Max(Unwrap(s.end_time) - s.start_time, 0)
    ELSE Max(t - s.start_time, 0)

\* ApplicationStats::new.
ApplicationStats ==
    [ total_focus_duration_secs |-> 0, total_keystrokes |-> 0,
      total_clicks |-> 0, session_count |-> 0 ]

\* ApplicationStats::add_session.
add_session(stats, s) ==
    [ total_focus_duration_secs |->
          stats.total_focus_duration_secs + duration_secs(s, 0),
      total_keystrokes |-> stats.total_keystrokes + s.keystrokes,
      total_clicks     |-> stats.total_clicks + s.mouse_clicks,
      session_count    |-> stats.session_count + 1 ]

(* ------------------------------- state -------------------------------- *)

VARIABLES
    now,                 \* the UTC clock
    current_session,     \* ActivityStore.current_session : Option<WindowSession>
    completed_sessions,  \* ActivityStore.completed_sessions
    app_aggregates,      \* ActivityStore.app_aggregates (absent = session_count 0)
    last_input_time,     \* ActivityStore.last_input_time
    pending_sessions,    \* ActivityStore.pending_sessions
    current_media,       \* ActivityStore.current_media : Option<MediaSession>
    media_history,       \* ActivityStore.media_history
    pending_media,       \* ActivityStore.pending_media
    op,                  \* the store operation performed last, with its inputs
    db_sessions,         \* rows of the sessions table, in insertion order
    key_manager,         \* KEY_MANAGER : Option<KeyManager>
    counters,            \* the five atomic counters of input_hooks
    increments,          \* per counter, the fetch_add calls performed so far
    flushed,             \* per counter, the sum of the values its flushes returned
    since_flush,         \* per counter, the fetch_add calls since its last flush
    poller,              \* the polling thread: position in its loop and locals
    store_readers,       \* threads holding the read lock of ACTIVITY_STORE
    credited,            \* per counter, the counts passed to add_input_counts
    media_op,            \* the media operation performed last, with its input
    daily_integrity,     \* rows of the daily_integrity table
    process,             \* the application process: running, exited or crashed
    daily_op,            \* the persistence step performed last, with its inputs
    foreground,          \* the foreground window of the desktop
    gap_input,           \* per window, the uncredited input that followed a change to it
    gap_credit,          \* that input as credited: to its window's session, to another's
    shutdown,            \* the AtomicBool the main thread shares with the poller
    main,                \* the main thread: its position from the message loop on
    db_save_counter,     \* the polling thread's cycles since its last save
    late,                \* the poller wrote or saved after the final finalize
    final_session,       \* the session finalize_and_save finalized
    store_lock,          \* ACTIVITY_STORE's RwLock: its writer and its readers
    db_lock,             \* the thread holding the mutex of DATABASE
    thread_pc,           \* per thread taking both locks, its position
    db_media,            \* rows of the media table
    enqueued,            \* what was pushed to the two pending queues, in order
    drained,             \* what the drains returned, in order, and whether an insert failed
    drain_op,            \* the drain-and-append performed last, with its inputs
    finalize_state,      \* whether finalize_current_session ran, and ran again
    glob,                \* a call of pattern_matches or is_blacklisted: inputs, result
    merkle,              \* a call of build_merkle_root and verify_merkle_root
    cycle,               \* the poll cycle under way: the blacklist, locals, steps taken
    write_op             \* the store operation under way under the write lock

storeVars == << current_session, completed_sessions, app_aggregates,
                last_input_time, pending_sessions,
                current_media, media_history, pending_media >>

persistVars == << db_sessions, key_manager >>

ringVars == << counters, increments, flushed, since_flush >>

pollerVars == << poller, store_readers, credited >>

\* The variables only the specifications of the later sections change.
runVars == << foreground, gap_input, gap_credit, shutdown, main,
             db_save_counter, late,
             final_session >>

dailyVars == << daily_integrity, process, daily_op >>

\* The two locks and the threads that take them.
lockVars == << store_lock, db_lock, thread_pc >>

\* The media log and the history of the two pending queues.
queueVars == << db_media, enqueued, drained, drain_op, finalize_state >>

\* The inputs and results of the pure functions.
pureVars == << glob, merkle >>

otherVars == << lockVars, queueVars, pureVars, cycle, write_op >>

auxVars == << media_op, dailyVars, runVars, otherVars >>

vars == << now, current_session, completed_sessions, app_aggregates,
           last_input_time, pending_sessions, op, db_sessions, key_manager,
           counters, increments, flushed, since_flush,
           poller, store_readers, credited,
           current_media, media_history, pending_media, media_op,
           daily_integrity, process, daily_op,
           foreground, gap_input, gap_credit, shutdown, main,
           db_save_counter, late,
           final_session, store_lock, db_lock, thread_pc,
           db_media, enqueued, drained, drain_op, finalize_state,
           glob, merkle, cycle, write_op >>

\* The store as one value, for the operations below.
Store ==
    [ current_session    |-> current_session,
      completed_sessions |-> completed_sessions,
      app_aggregates     |-> app_aggregates,
      last_input_time    |-> last_input_time,
      pending_sessions   |-> pending_sessions,
      current_media      |-> current_media,
      media_history      |-> media_history,
      pending_media      |-> pending_media ]

SetStore(st) ==
    /\ current_session'    = st.current_session
    /\ completed_sessions' = st.completed_sessions
    /\ app_aggregates'     = st.app_aggregates
    /\ last_input_time'    = st.last_input_time
    /\ pending_sessions'   = st.pending_sessions
    /\ current_media'      = st.current_media
    /\ media_history'      = st.media_history
    /\ pending_media'      = st.pending_media

(* -------------------------- ActivityStore ----------------------------- *)

\* ActivityStore::update_aggregates.
update_aggregates(st, s) ==
    [ st EXCEPT !.app_aggregates[s.process_name] = add_session(@, s) ]

\* The three pushes of a session that passed the duration filter.
KeepSession(st, s) ==
    LET a == update_aggregates(st, s)
    IN  [ a EXCEPT !.pending_sessions   = Append(@, s),
                   !.completed_sessions = Append(@, s) ]

\* ActivityStore::save_session_if_valid.
save_session_if_valid(st, s) ==
    IF duration_secs(s, 0) >= MinSessionDuration
    THEN KeepSession(st, s)
    ELSE st

\* A switch_session that leaves last_input_time as it was.
switch_session_KeepingLastInput(st, w, t1, t2, t3) ==
    LET finalized ==
            IF IsSome(st.current_session)
            THEN LET old == [ Unwrap(st.current_session)
                                EXCEPT !.end_time = Some(t1) ]
                     cleared == [ st EXCEPT !.current_session = None ]
                 IN  IF duration_secs(old, t1) >= MinSessionDuration
                     THEN KeepSession(cleared, old)
                     ELSE cleared
            ELSE st
    IN  [ finalized EXCEPT !.current_session = Some(WindowSession(w, t2)) ]

\* ActivityStore::switch_session; t1, t2, t3 are its clock reads in order:
\* finalize of the old session, start of the new one, last_input_time.
switch_session(st, w, t1, t2, t3) ==
    LET finalized ==
            IF IsSome(st.current_session)
            THEN LET old == [ Unwrap(st.current_session)
                                EXCEPT !.end_time = Some(t1) ]
                     cleared == [ st EXCEPT !.current_session = None ]
                 IN  IF duration_secs(old, t1) >= MinSessionDuration
                     THEN KeepSession(cleared, old)
                     ELSE cleared
            ELSE st
    IN  [ finalized EXCEPT !.current_session = Some(WindowSession(w, t2)),
                           !.last_input_time = t3 ]

\* has_activity of the two split paths.
has_activity(s) ==
    s.keystrokes > 0 \/ s.mouse_clicks > 0 \/ s.mouse_scrolls > 0

\* The last input taken as it is, also when it precedes the session's start.
effective_last_input_Unclamped(st, s) == st.last_input_time

\* effective_last_input of the two split paths.
effective_last_input(st, s) == Max(st.last_input_time, s.start_time)

\* The active slice of a split: the session up to the last input.
ActiveSlice(st, s) ==
    [ s EXCEPT !.end_time = Some(effective_last_input(st, s)),
               !.is_idle  = FALSE ]

\* An idle slice that keeps the counts of the session it is cut from.
IdleSlice_KeepingCounts(st, s, t) ==
    [ s EXCEPT !.start_time = effective_last_input(st, s),
               !.end_time   = Some(t),
               !.is_idle    = TRUE ]

\* The idle slice of a split: from the last input to instant t, no counts.
IdleSlice(st, s, t) ==
    [ s EXCEPT !.start_time    = effective_last_input(st, s),
               !.end_time      = Some(t),
               !.keystrokes    = 0,
               !.mouse_clicks  = 0,
               !.mouse_scrolls = 0,
               !.is_idle       = TRUE ]

\* ActivityStore::split_on_resume_from_idle; t2 is the read that ends the
\* idle slice, t3 the read that starts the new session.
split_on_resume_from_idle(st, t2, t3) ==
    LET session == Unwrap(st.current_session)
        taken   == [ st EXCEPT !.current_session = None ]
        fresh   == Some(WindowSession(WindowOf(session), t3))
    IN  IF has_activity(session)
        THEN LET a == save_session_if_valid(taken, ActiveSlice(st, session))
                 b == save_session_if_valid(a, IdleSlice(st, session, t2))
             IN  [ b EXCEPT !.current_session = fresh ]
        ELSE LET idle == [ session EXCEPT !.end_time = Some(t2),
                                          !.is_idle  = TRUE ]
                 b    == save_session_if_valid(taken, idle)
             IN  [ b EXCEPT !.current_session = fresh ]

\* The counts of add_input_counts added to the current session, if any.
Accumulate(st, k, c, s) ==
    IF IsSome(st.current_session)
    THEN [ st EXCEPT !.current_session =
             Some([ Unwrap(@) EXCEPT !.keystrokes    = @ + k,
                                     !.mouse_clicks  = @ + c,
                                     !.mouse_scrolls = @ + s ]) ]
    ELSE st

\* An add_input_counts that accumulates the counts before the resume split.
add_input_counts_AccumulateFirst(st, k, c, s, t1, t2, t3) ==
    LET added == Accumulate(st, k, c, s)
    IN  IF k > 0 \/ c > 0 \/ s > 0
        THEN LET split ==
                     IF /\ t1 - added.last_input_time > AfkThreshold
                        /\ IsSome(added.current_session)
                        /\ ~Unwrap(added.current_session).is_idle
                     THEN split_on_resume_from_idle(added, t2, t3)
                     ELSE added
             IN  [ split EXCEPT !.last_input_time = t1 ]
        ELSE added

\* An add_input_counts that takes any call for input, counts or none.
add_input_counts_CountingEmptyCalls(st, k, c, s, t1, t2, t3) ==
    LET split ==
            IF /\ t1 - st.last_input_time > AfkThreshold
               /\ IsSome(st.current_session)
               /\ ~Unwrap(st.current_session).is_idle
            THEN split_on_resume_from_idle(st, t2, t3)
            ELSE st
    IN  Accumulate([ split EXCEPT !.last_input_time = t1 ], k, c, s)

\* ActivityStore::add_input_counts; t1 is `now` of the function, t2 and t3
\* are the reads of the resume split.
add_input_counts(st, k, c, s, t1, t2, t3) ==
    LET resumed ==
            IF k > 0 \/ c > 0 \/ s > 0
            THEN LET split ==
                         IF /\ t1 - st.last_input_time > AfkThreshold
                            /\ IsSome(st.current_session)
                            /\ ~Unwrap(st.current_session).is_idle
                         THEN split_on_resume_from_idle(st, t2, t3)
                         ELSE st
                 IN  [ split EXCEPT !.last_input_time = t1 ]
            ELSE st
    IN  Accumulate(resumed, k, c, s)

\* A check that, on a session already idle, moves the last input along
\* with the end.
check_and_split_on_idle_TouchingLastInput(st, t1, t2) ==
    IF ~IsSome(st.current_session)
    THEN st
    ELSE IF t1 - st.last_input_time > AfkThreshold
    THEN LET session == Unwrap(st.current_session)
         IN  IF session.is_idle
             THEN [ st EXCEPT !.current_session =
                        Some([ session EXCEPT !.end_time = Some(t2) ]),
                              !.last_input_time = t2 ]
             ELSE IF has_activity(session)
             THEN LET taken == [ st EXCEPT !.current_session = None ]
                      a == save_session_if_valid(taken, ActiveSlice(st, session))
                  IN  [ a EXCEPT !.current_session =
                                   Some(IdleSlice(st, session, t2)) ]
             ELSE [ st EXCEPT !.current_session =
                        Some([ session EXCEPT !.end_time = Some(t2),
                                              !.is_idle  = TRUE ]) ]
    ELSE st

\* ActivityStore::check_and_split_on_idle; t1 is the read of the gap, t2 the
\* read that ends the idle session.
check_and_split_on_idle(st, t1, t2) ==
    IF ~IsSome(st.current_session)
    THEN st
    ELSE IF t1 - st.last_input_time > AfkThreshold
    THEN LET session == Unwrap(st.current_session)
         IN  IF session.is_idle
             THEN [ st EXCEPT !.current_session =
                        Some([ session EXCEPT !.end_time = Some(t2) ]) ]
             ELSE IF has_activity(session)
             THEN LET taken == [ st EXCEPT !.current_session = None ]
                      a == save_session_if_valid(taken, ActiveSlice(st, session))
                  IN  [ a EXCEPT !.current_session =
                                   Some(IdleSlice(st, session, t2)) ]
             ELSE [ st EXCEPT !.current_session =
                        Some([ session EXCEPT !.end_time = Some(t2),
                                              !.is_idle  = TRUE ]) ]
    ELSE st

\* A finalize that ends the focus session and leaves the media session.
finalize_current_session_FocusOnly(st, t1, t2) ==
    IF IsSome(st.current_session)
    THEN LET session == [ Unwrap(st.current_session)
                            EXCEPT !.end_time = Some(t1) ]
         IN  [ st EXCEPT !.current_session    = None,
                         !.pending_sessions   = Append(@, session),
                         !.completed_sessions = Append(@, session) ]
    ELSE st

\* ActivityStore::finalize_current_session; t1 and t2 are the reads of the
\* two finalize() calls, of the focus session and of the media session.
finalize_current_session(st, t1, t2) ==
    LET focus ==
            IF IsSome(st.current_session)
            THEN LET session == [ Unwrap(st.current_session)
                                    EXCEPT !.end_time = Some(t1) ]
                 IN  [ st EXCEPT !.current_session    = None,
                                 !.pending_sessions   = Append(@, session),
                                 !.completed_sessions = Append(@, session) ]
            ELSE st
    IN  IF IsSome(focus.current_media)
        THEN LET media == [ Unwrap(focus.current_media)
                              EXCEPT !.end_time = Some(t2) ]
             IN  [ focus EXCEPT !.current_media = None,
                                !.pending_media = Append(@, media),
                                !.media_history = Append(@, media) ]
        ELSE focus

\* ActivityStore::prune_old_sessions: each history longer than max_sessions
\* loses its first entries and keeps its last max_sessions.
prune_old_sessions(st, max_sessions) ==
    LET pruned(history) ==
            IF Len(history) > max_sessions
            THEN SubSeq(history, Len(history) - max_sessions + 1, Len(history))
            ELSE history
    IN  [ st EXCEPT !.completed_sessions = pruned(@),
                    !.media_history      = pruned(@) ]

(* ------------------------------- media -------------------------------- *)

\* media::PlaybackStatus.
PlaybackStatus == { "Playing", "Paused", "Stopped", "Changing", "Unknown" }

\* An is_playing that looks at the status only.
is_playing_StatusOnly(info) == info.playback_status = "Playing"

\* MediaInfo::is_playing.
is_playing(info) == info.playback_status = "Playing" /\ info.title /= ""

\* MediaSession::new: a media session starting at instant t.
MediaSession(info, t) ==
    [ media_info |-> info, start_time |-> t, end_time |-> None ]

\* An is_same_media that also compares the album.
is_same_media_WithAlbum(m, other) ==
    /\ m.media_info.title = other.title
    /\ m.media_info.artist = other.artist
    /\ m.media_info.album = other.album

\* MediaSession::is_same_media.
is_same_media(m, other) ==
    m.media_info.title = other.title /\ m.media_info.artist = other.artist

\* An update_media whose stop branch ends the media session without
\* queueing it.
update_media_DroppingStopped(st, media_info, t1, t2) ==
    LET media_changed ==
            IF IsSome(st.current_media)
            THEN ~is_same_media(Unwrap(st.current_media), media_info)
            ELSE TRUE
    IN  IF media_changed /\ is_playing(media_info)
        THEN LET taken ==
                     IF IsSome(st.current_media)
                     THEN LET old_media == [ Unwrap(st.current_media)
                                               EXCEPT !.end_time = Some(t1) ]
                          IN  [ st EXCEPT !.current_media = None,
                                          !.media_history = Append(@, old_media) ]
                     ELSE st
             IN  [ taken EXCEPT !.current_media =
                                   Some(MediaSession(media_info, t2)) ]
        ELSE IF ~is_playing(media_info) /\ IsSome(st.current_media)
        THEN LET old_media == [ Unwrap(st.current_media)
                                  EXCEPT !.end_time = Some(t1) ]
             IN  [ st EXCEPT !.current_media = None,
                             !.media_history = Append(@, old_media) ]
        ELSE st

\* ActivityStore::update_media; t1 is the read that finalizes the old media
\* session, t2 the read that starts the new one.
update_media(st, media_info, t1, t2) ==
    LET media_changed ==
            IF IsSome(st.current_media)
            THEN ~is_same_media(Unwrap(st.current_media), media_info)
            ELSE TRUE
    IN  IF media_changed /\ is_playing(media_info)
        THEN LET taken ==
                     IF IsSome(st.current_media)
                     THEN LET old_media == [ Unwrap(st.current_media)
                                               EXCEPT !.end_time = Some(t1) ]
                          IN  [ st EXCEPT !.current_media = None,
                                          !.media_history = Append(@, old_media) ]
                     ELSE st
             IN  [ taken EXCEPT !.current_media =
                                   Some(MediaSession(media_info, t2)) ]
        ELSE IF ~is_playing(media_info) /\ IsSome(st.current_media)
        THEN LET old_media == [ Unwrap(st.current_media)
                                  EXCEPT !.end_time = Some(t1) ]
             IN  [ st EXCEPT !.current_media = None,
                             !.pending_media = Append(@, old_media),
                             !.media_history = Append(@, old_media) ]
        ELSE st

(* ------------------------------ actions ------------------------------- *)

\* The instants a later clock read of a handler can return when its first
\* read returned t: the clock advances by at most one second meanwhile.
Later(t) == { u \in {t, t + 1} : u <= MaxTime }

\* The two later reads of a handler whose first read returned t, in order.
LaterReads(t) == { r \in Later(t) \X Later(t) : r[1] <= r[2] }

\* The counts one AddInput call carries: nothing, or one event of one kind.
Inputs == { <<0, 0, 0>>, <<1, 0, 0>>, <<0, 1, 0>>, <<0, 0, 1>> }

\* Sum of the counts a session carries.
TotalCount(s) == s.keystrokes + s.mouse_clicks + s.mouse_scrolls

\* The sessions a step appended to a queue that went from `before` to `after`.
Pushed(before, after) == SubSeq(after, Len(before) + 1, Len(after))

\* Number of add_session calls between two values of the aggregates.
Aggregated(before, after) ==
    LET RECURSIVE Sum(_)
        Sum(S) == IF S = {} THEN 0
                  ELSE LET p == CHOOSE q \in S : TRUE
                       IN  after[p].session_count - before[p].session_count
                             + Sum(S \ {p})
    IN  Sum(ProcessNames)

\* What a step records of itself: the operation, its counts, its first clock
\* read, the current session and last input it started from, the sessions it
\* enqueued for persistence, those it appended to the history, the number
\* of sessions it added to the aggregates and the window it was given.
OpRecord(name, k, c, s, st) ==
    [ name |-> name, counts |-> <<k, c, s>>, at |-> now, window |-> None,
      pre_session |-> current_session, pre_last_input |-> last_input_time,
      enqueued |-> Pushed(pending_sessions, st.pending_sessions),
      appended |-> Pushed(completed_sessions, st.completed_sessions),
      aggregated |-> Aggregated(app_aggregates, st.app_aggregates) ]

\* The signing key KeyManager::init loads or generates.
SigningKey == "signing_key"

StoreInit ==
    /\ now = 0
    /\ current_session = None
    /\ completed_sessions = <<>>
    /\ app_aggregates = [ p \in ProcessNames |-> ApplicationStats ]
    /\ last_input_time = 0
    /\ pending_sessions = <<>>
    /\ current_media = None
    /\ media_history = <<>>
    /\ pending_media = <<>>
    /\ media_op = [ name |-> "new", info |-> None, pre_media |-> None,
                    enqueued |-> <<>>, appended |-> <<>> ]
    /\ op = [ name |-> "new", counts |-> <<0, 0, 0>>, at |-> 0, window |-> None,
              pre_session |-> None, pre_last_input |-> 0,
              enqueued |-> <<>>, appended |-> <<>>, aggregated |-> 0 ]

\* The counters of input_hooks, by the names of the statics.
Counters == { "KEYSTROKE_COUNT", "LEFT_CLICK_COUNT", "RIGHT_CLICK_COUNT",
              "MIDDLE_CLICK_COUNT", "SCROLL_COUNT" }

\* The statics as initialized, the polling thread as spawned, no reader.
RingInit ==
    /\ counters    = [ c \in Counters |-> 0 ]
    /\ increments  = [ c \in Counters |-> 0 ]
    /\ flushed     = [ c \in Counters |-> 0 ]
    /\ since_flush = [ c \in Counters |-> 0 ]
    /\ poller = [ pc |-> "check_idle", last_hwnd |-> None,
                  keystrokes |-> 0, left |-> 0, right |-> 0, middle |-> 0,
                  scrolls |-> 0 ]
    /\ store_readers = 0
    /\ credited = [ c \in Counters |-> 0 ]

\* finalize_current_session was not the last operation on the store; done
\* tells whether it ran with no switch_session or update_media since.
NotFinalizing(done) ==
    [ done |-> done, last |-> FALSE, again |-> FALSE, at |-> 0,
      pre_session |-> None, pre_media |-> None,
      sessions |-> << >>, media |-> << >> ]

\* An empty daily_integrity table and a running process, its main thread in
\* the message loop, a window in the foreground.
AuxInit ==
    /\ daily_integrity = <<>>
    /\ process = "running"
    /\ daily_op = [ name |-> "new", key |-> None, after_shutdown |-> FALSE,
                    batch |-> <<>>, failing |-> {}, rows |-> <<>>,
                    calls |-> <<>> ]
    /\ foreground = Some(CHOOSE w \in Windows : w.hwnd = 1)
    /\ gap_input = [ w \in Windows |-> 0 ]
    /\ gap_credit = [ new |-> 0, old |-> 0 ]
    /\ shutdown = FALSE
    /\ main = "message_loop"
    /\ db_save_counter = 0
    /\ late = FALSE
    /\ final_session = None
    /\ store_lock = [ writer |-> None, readers |-> {} ]
    /\ db_lock = None
    /\ thread_pc = [ poller |-> "check_idle", ws |-> "idle", stats |-> "idle" ]
    /\ db_media = << >>
    /\ enqueued = [ sessions |-> << >>, media |-> << >> ]
    /\ drained = [ sessions |-> << >>, media |-> << >>, failed |-> FALSE ]
    /\ drain_op = [ name |-> "new", sessions |-> << >>, media |-> << >>,
                    failing_sessions |-> {}, failing_media |-> {},
                    pre_sessions |-> << >>, pre_media |-> << >>,
                    left |-> << >> ]
    /\ finalize_state = NotFinalizing(FALSE)

\* No call of a pure function is under way.
NoGlob ==
    [ kind |-> "none", pattern |-> << >>, text |-> << >>,
      blacklist |-> None, process_name |-> << >>, result |-> None ]

NoMerkle == [ hashes |-> << >>, root |-> None, built |-> FALSE, verified |-> None ]

\* The polling thread as spawned: nothing sampled, no cycle completed, an
\* empty blacklist table.
NoCycle ==
    [ blacklist |-> Some(<< >>), last_title |-> "", hwnd |-> None,
      steps |-> << >>, completed |-> 0, saves |-> << >>,
      observed |-> FALSE, after |-> << >> ]

\* No store operation is under way; present tells whether the operations
\* completed so far leave a current session: a switch_session was one of
\* them and no finalize_current_session came after it.
NoWrite(present) ==
    [ name |-> "none", window |-> None, pre |-> None, present |-> present ]

PureInit ==
    /\ glob = NoGlob
    /\ merkle = NoMerkle
    /\ cycle = NoCycle
    /\ write_op = NoWrite(FALSE)

Init ==
    /\ StoreInit
    /\ db_sessions = <<>>
    /\ key_manager = Some(SigningKey)
    /\ RingInit
    /\ AuxInit
    /\ PureInit

\* One second passes.
Tick ==
    /\ now < MaxTime
    /\ now' = now + 1
    /\ UNCHANGED << storeVars, op, persistVars, auxVars, ringVars, pollerVars >>

CanStart == Len(completed_sessions) < MaxHistory

\* A focus change while fewer than n sessions were completed.
SwitchSessionUpTo(n) ==
    /\ Len(completed_sessions) < n
    /\ \E w \in Windows : \E r \in LaterReads(now) :
          LET st == switch_session(Store, w, now, r[1], r[2])
          IN  /\ SetStore(st)
              /\ now' = r[2]
              /\ op' = [ OpRecord("SwitchSession", 0, 0, 0, st)
                           EXCEPT !.window = Some(w) ]
    /\ UNCHANGED << persistVars, auxVars, ringVars, pollerVars >>

SwitchSession == SwitchSessionUpTo(MaxHistory)

\* Input counts reported while fewer than n sessions were completed.
AddInputUpTo(n) ==
    /\ Len(completed_sessions) < n
    /\ \E i \in Inputs : \E r \in LaterReads(now) :
          LET st == add_input_counts(Store, i[1], i[2], i[3], now, r[1], r[2])
              split == st.pending_sessions /= pending_sessions
                         \/ ( IsSome(current_session)
                              /\ Unwrap(st.current_session).start_time
                                   /= Unwrap(current_session).start_time )
          IN  /\ IsSome(st.current_session) =>
                    TotalCount(Unwrap(st.current_session)) <= MaxCount
              /\ split \/ r = <<now, now>>
              /\ SetStore(st)
              /\ now' = r[2]
              /\ op' = OpRecord("AddInput", i[1], i[2], i[3], st)
    /\ UNCHANGED << persistVars, auxVars, ringVars, pollerVars >>

AddInput == AddInputUpTo(MaxHistory)

CheckAndSplitOnIdle ==
    /\ CanStart
    /\ \E t2 \in Later(now) :
          LET st == check_and_split_on_idle(Store, now, t2)
          IN  /\ st = Store => t2 = now
              /\ SetStore(st)
              /\ now' = t2
              /\ op' = OpRecord("CheckAndSplitOnIdle", 0, 0, 0, st)
    /\ UNCHANGED << persistVars, auxVars, ringVars, pollerVars >>

FinalizeCurrentSession ==
    /\ CanStart
    /\ LET st == finalize_current_session(Store, now, now)
       IN  /\ SetStore(st)
           /\ op' = OpRecord("FinalizeCurrentSession", 0, 0, 0, st)
    /\ UNCHANGED << now, persistVars, auxVars, ringVars, pollerVars >>

Next ==
    \/ Tick
    \/ SwitchSession
    \/ AddInput
    \/ CheckAndSplitOnIdle
    \/ FinalizeCurrentSession

Spec == Init /\ [][Next]_vars

(* ---------------------------- persistence ----------------------------- *)

\* DateTime::to_rfc3339: the text of an instant, one text per instant.
to_rfc3339(t) == << "rfc3339", t >>

\* crypto::hash_session_data: SHA-256 over the fields joined by "|", the
\* prior hash appended when there is one; distinct inputs, distinct digests.
hash_session_data(process_name, window_title, start_time, end_time, keystrokes, clicks, scrolls, prev_hash) ==
    << "sha256", process_name, window_title, start_time, end_time,
       keystrokes, clicks, scrolls, prev_hash >>

\* crypto::sign_hash: the Ed25519 signature of a hash under a key.
sign_hash(hash, key) == << "ed25519", key, hash >>

\* A hash_and_sign_session that hashes the session without the prior hash.
hash_and_sign_session_Unchained(key, session, prev_hash) ==
    LET hash == hash_session_data(session.process_name, session.window_title,
                                  to_rfc3339(session.start_time),
                                  to_rfc3339(Unwrap(session.end_time)),
                                  session.keystrokes, session.mouse_clicks,
                                  session.mouse_scrolls, None)
    IN  << hash, sign_hash(hash, key) >>

\* crypto::hash_and_sign_session.
hash_and_sign_session(key, session, prev_hash) ==
    LET hash == hash_session_data(session.process_name, session.window_title,
                                  to_rfc3339(session.start_time),
                                  to_rfc3339(Unwrap(session.end_time)),
                                  session.keystrokes, session.mouse_clicks,
                                  session.mouse_scrolls, prev_hash)
    IN  << hash, sign_hash(hash, key) >>

\* Database::get_last_session_hash: the hash column of the row inserted
\* last, None for an empty table.
get_last_session_hash(db) ==
    IF db = << >> THEN None ELSE db[Len(db)].hash

\* Database::save_session with the integrity columns: one row appended, the
\* two times stored as RFC 3339 text.
save_session(db, session, hash, signature, prev_hash) ==
    Append(db, [ process_name |-> session.process_name,
                 window_title |-> session.window_title,
                 start_time   |-> to_rfc3339(session.start_time),
                 end_time     |-> to_rfc3339(Unwrap(session.end_time)),
                 keystrokes   |-> session.keystrokes,
                 clicks       |-> session.mouse_clicks,
                 scrolls      |-> session.mouse_scrolls,
                 is_idle      |-> session.is_idle,
                 hash         |-> hash,
                 signature    |-> signature,
                 prev_hash    |-> prev_hash ])

\* A loop that returns at the first insert that fails.
RECURSIVE SaveSessions_AbortingOnFailure(_, _, _, _, _, _)
SaveSessions_AbortingOnFailure(sessions, i, db, prev_hash, km, failing) ==
    IF i > Len(sessions) \/ i \in failing
    THEN db
    ELSE LET session == sessions[i]
             hs == hash_and_sign_session(Unwrap(km), session, prev_hash)
             hash           == IF IsSome(km) THEN Some(hs[1]) ELSE None
             signature      == IF IsSome(km) THEN Some(hs[2]) ELSE None
             used_prev_hash == IF IsSome(km) THEN prev_hash ELSE None
         IN  SaveSessions_AbortingOnFailure(sessions, i + 1,
                                            save_session(db, session, hash,
                                                         signature, used_prev_hash),
                                            hash, km, failing)

\* The loop of save_pending_to_db from the i-th drained session on;
\* `failing` are the positions whose insert returns an error.
RECURSIVE SaveSessions(_, _, _, _, _, _)
SaveSessions(sessions, i, db, prev_hash, km, failing) ==
    IF i > Len(sessions)
    THEN db
    ELSE LET session == sessions[i]
         IN  IF ~IsSome(session.end_time)
             THEN SaveSessions(sessions, i + 1, db, prev_hash, km, failing)
             ELSE LET hs == hash_and_sign_session(Unwrap(km), session, prev_hash)
                      hash           == IF IsSome(km) THEN Some(hs[1]) ELSE None
                      signature      == IF IsSome(km) THEN Some(hs[2]) ELSE None
                      used_prev_hash == IF IsSome(km) THEN prev_hash ELSE None
                      \* prev_hash.take() leaves None behind
                      taken          == IF IsSome(km) THEN None ELSE prev_hash
                  IN  IF i \in failing
                      THEN SaveSessions(sessions, i + 1, db, taken, km, failing)
                      ELSE SaveSessions(sessions, i + 1,
                                        save_session(db, session, hash,
                                                     signature, used_prev_hash),
                                        hash, km, failing)

\* A drain that returns the queue and leaves it as it is.
drain_pending_sessions_Cloning(st) ==
    [ store |-> st, batch |-> st.pending_sessions ]

\* ActivityStore::drain_pending_sessions: std::mem::take of the queue.
drain_pending_sessions(st) ==
    [ store |-> [ st EXCEPT !.pending_sessions = << >> ],
      batch |-> st.pending_sessions ]

\* ActivityStore::drain_pending_media.
drain_pending_media(st) ==
    [ store |-> [ st EXCEPT !.pending_media = << >> ],
      batch |-> st.pending_media ]

\* store::save_pending_to_db (focus sessions): drains the pending queue and
\* appends it to the log; the result is the store and the log afterwards.
save_pending_to_db(st, db, km, failing) ==
    LET sessions == drain_pending_sessions(st)
        media    == drain_pending_media(sessions.store)
    IN  [ store    |-> media.store,
          sessions |-> SaveSessions(sessions.batch, 1, db,
                                    get_last_session_hash(db), km, failing) ]

\* Database::save_media: one row appended to the media table.
save_media(dbm, m) ==
    Append(dbm, [ title      |-> m.media_info.title,
                  artist     |-> m.media_info.artist,
                  album      |-> m.media_info.album,
                  source_app |-> m.media_info.source_app_id,
                  start_time |-> to_rfc3339(m.start_time),
                  end_time   |-> to_rfc3339(Unwrap(m.end_time)),
                  duration_secs |-> Max(Unwrap(m.end_time) - m.start_time, 0) ])

\* The media loop of save_pending_to_db from its i-th item on: an item
\* without end is skipped, a failing insert is logged and the loop goes on.
RECURSIVE SaveMedia(_, _, _, _)
SaveMedia(media, i, dbm, failing) ==
    IF i > Len(media) THEN dbm
    ELSE LET m == media[i]
         IN  IF ~ IsSome(m.end_time) \/ i \in failing
             THEN SaveMedia(media, i + 1, dbm, failing)
             ELSE SaveMedia(media, i + 1, save_media(dbm, m), failing)

\* store::save_pending_to_db (media sessions): the media table after the
\* drained media queue was appended to it.
save_pending_media_to_db(st, dbm, failing) ==
    SaveMedia(drain_pending_media(st).batch, 1, dbm, failing)

PersistInit ==
    /\ StoreInit
    /\ db_sessions = << >>
    /\ key_manager \in { None, Some(SigningKey) }
    /\ RingInit
    /\ AuxInit
    /\ PureInit

\* A drain-and-append batch; any of its inserts may fail.
SavePendingToDb ==
    /\ pending_sessions /= << >>
    /\ \E failing \in SUBSET (1 .. Len(pending_sessions)) :
          LET r == save_pending_to_db(Store, db_sessions, key_manager, failing)
          IN  /\ SetStore(r.store)
              /\ db_sessions' = r.sessions
    /\ UNCHANGED << now, op, key_manager, ringVars, pollerVars, auxVars >>

PersistNext ==
    \/ Tick
    \/ SwitchSessionUpTo(MaxLog)
    \/ AddInputUpTo(MaxCounted)
    \/ SavePendingToDb

SpecPersist == PersistInit /\ [][PersistNext]_vars

(* ------------------- counter ring and polling thread ------------------ *)

\* The message pump thread (the two hooks), the polling thread and a thread
\* reading the store run concurrently; every step below is one atomic
\* operation or one critical section of the store's lock.  The clock of
\* this specification advances in the sleep of the polling loop.  The
\* loop's periodic save_pending_to_db is the subject of SpecPersist.

\* AtomicU64::fetch_add(1, Relaxed) on one counter.
fetch_add(c, counter) == [ c EXCEPT ![counter] = @ + 1 ]

\* A flush that reads the counter and leaves it as it is.
flush_count_WithoutReset(c, counter) ==
    [ value |-> c[counter], counters |-> c ]

\* flush_keystroke_count, flush_click_counts (one of its three swaps) and
\* flush_scroll_count: swap(0, Relaxed), the value read and the counters
\* left behind.
flush_count(c, counter) ==
    [ value |-> c[counter], counters |-> [ c EXCEPT ![counter] = 0 ] ]

\* The counter a hook increments for a message, None for any other message.
CounterOf(msg) ==
    CASE msg \in { "WM_KEYDOWN", "WM_SYSKEYDOWN" } -> Some("KEYSTROKE_COUNT")
      [] msg = "WM_LBUTTONDOWN" -> Some("LEFT_CLICK_COUNT")
      [] msg = "WM_RBUTTONDOWN" -> Some("RIGHT_CLICK_COUNT")
      [] msg = "WM_MBUTTONDOWN" -> Some("MIDDLE_CLICK_COUNT")
      [] msg = "WM_MOUSEWHEEL"  -> Some("SCROLL_COUNT")
      [] OTHER -> None

KeyboardMessages == { "WM_KEYDOWN", "WM_SYSKEYDOWN", "WM_KEYUP" }

MouseMessages == { "WM_LBUTTONDOWN", "WM_RBUTTONDOWN", "WM_MBUTTONDOWN",
                   "WM_MOUSEWHEEL", "WM_MOUSEMOVE" }

\* Number of input events counted so far.
Events ==
    increments["KEYSTROKE_COUNT"] + increments["LEFT_CLICK_COUNT"]
      + increments["RIGHT_CLICK_COUNT"] + increments["MIDDLE_CLICK_COUNT"]
      + increments["SCROLL_COUNT"]

\* A hook callback for message msg, on the message pump thread.
HookProc(msg) ==
    /\ Events < MaxEvents
    /\ IsSome(CounterOf(msg))
    /\ LET counter == Unwrap(CounterOf(msg))
       IN  /\ counters'    = fetch_add(counters, counter)
           /\ increments'  = [ increments EXCEPT ![counter] = @ + 1 ]
           /\ since_flush' = [ since_flush EXCEPT ![counter] = @ + 1 ]
    /\ UNCHANGED << now, storeVars, op, persistVars, auxVars, flushed, pollerVars >>

keyboard_hook_proc == \E msg \in KeyboardMessages : HookProc(msg)

mouse_hook_proc == \E msg \in MouseMessages : HookProc(msg)

\* Another thread (an API route, the WebSocket task, the tray) takes the
\* read lock of the store, and later drops it.
ReadLock ==
    /\ store_readers < MaxReaders
    /\ store_readers' = store_readers + 1
    /\ UNCHANGED << now, storeVars, op, persistVars, auxVars, ringVars, poller, credited >>

ReadUnlock ==
    /\ store_readers > 0
    /\ store_readers' = store_readers - 1
    /\ UNCHANGED << now, storeVars, op, persistVars, auxVars, ringVars, poller, credited >>

\* ACTIVITY_STORE.write() returns once no thread holds the lock;
\* try_write() fails at once while a thread holds it.
WriteLockFree == store_readers = 0

\* Loop head of the polling thread: check_and_split_on_idle under write().
PollCheckIdle ==
    /\ poller.pc = "check_idle"
    /\ WriteLockFree
    /\ SetStore(check_and_split_on_idle(Store, now, now))
    /\ poller' = [ poller EXCEPT !.pc = "flush_keystroke_count" ]
    /\ UNCHANGED << now, op, persistVars, auxVars, ringVars, store_readers, credited >>

\* The swaps of flush_counters_to_store in program order: the position of
\* the thread, the counter swapped there, the local that receives the value
\* and the position after it.
FlushSteps ==
    { << "flush_keystroke_count", "KEYSTROKE_COUNT", "keystrokes", "flush_left" >>,
      << "flush_left", "LEFT_CLICK_COUNT", "left", "flush_right" >>,
      << "flush_right", "RIGHT_CLICK_COUNT", "right", "flush_middle" >>,
      << "flush_middle", "MIDDLE_CLICK_COUNT", "middle", "flush_scroll_count" >>,
      << "flush_scroll_count", "SCROLL_COUNT", "scrolls", "try_write" >> }

\* One swap of flush_counters_to_store.
PollFlushCount ==
    \E s \in FlushSteps :
        /\ poller.pc = s[1]
        /\ LET f == flush_count(counters, s[2])
           IN  /\ counters' = f.counters
               /\ flushed' = [ flushed EXCEPT ![s[2]] = @ + f.value ]
               /\ poller' = [ poller EXCEPT ![s[3]] = f.value, !.pc = s[4] ]
        /\ since_flush' = [ since_flush EXCEPT ![s[2]] = 0 ]
        /\ UNCHANGED << now, storeVars, op, persistVars, auxVars, increments,
                        store_readers, credited >>

\* The local of flush_counters_to_store that holds the value of a counter.
LocalOf(counter) ==
    CASE counter = "KEYSTROKE_COUNT"    -> poller.keystrokes
      [] counter = "LEFT_CLICK_COUNT"   -> poller.left
      [] counter = "RIGHT_CLICK_COUNT"  -> poller.right
      [] counter = "MIDDLE_CLICK_COUNT" -> poller.middle
      [] counter = "SCROLL_COUNT"       -> poller.scrolls

\* The rest of flush_counters_to_store: with a nonzero count, try_write()
\* and add_input_counts, or nothing when the lock is held; the locals go
\* out of scope.
PollTryWrite ==
    /\ poller.pc = "try_write"
    /\ LET total_clicks == poller.left + poller.right + poller.middle
       IN  IF ( poller.keystrokes > 0 \/ total_clicks > 0 \/ poller.scrolls > 0 )
              /\ WriteLockFree
           THEN /\ SetStore(add_input_counts(Store, poller.keystrokes,
                                             total_clicks, poller.scrolls,
                                             now, now, now))
                /\ credited' = [ c \in Counters |-> credited[c] + LocalOf(c) ]
           ELSE UNCHANGED << storeVars, credited >>
    /\ poller' = [ poller EXCEPT !.pc = "foreground", !.keystrokes = 0,
                                 !.left = 0, !.right = 0, !.middle = 0,
                                 !.scrolls = 0 ]
    /\ UNCHANGED << now, op, persistVars, auxVars, ringVars, store_readers >>

\* The rest of poll_cycle: the foreground window is sampled (None on the
\* desktop or lock screen) and a change of window switches the session
\* under write().
PollForeground ==
    /\ poller.pc = "foreground"
    /\ \E fg \in { None } \cup { Some(w) : w \in Windows } :
          LET window_changed ==
                  IsSome(fg) /\ poller.last_hwnd /= Some(Unwrap(fg).hwnd)
          IN  IF window_changed
              THEN /\ CanStart
                   /\ WriteLockFree
                   /\ SetStore(switch_session(Store, Unwrap(fg), now, now, now))
                   /\ poller' = [ poller EXCEPT !.pc = "sleep",
                                     !.last_hwnd = Some(Unwrap(fg).hwnd) ]
              ELSE /\ UNCHANGED storeVars
                   /\ poller' = [ poller EXCEPT !.pc = "sleep" ]
    /\ UNCHANGED << now, op, persistVars, auxVars, ringVars, store_readers, credited >>

\* thread::sleep(poll_interval): the clock advances and the loop restarts.
PollSleep ==
    /\ poller.pc = "sleep"
    /\ now < MaxTime
    /\ now' = now + 1
    /\ poller' = [ poller EXCEPT !.pc = "check_idle" ]
    /\ UNCHANGED << storeVars, op, persistVars, auxVars, ringVars, store_readers,
                    credited >>

PollerNext ==
    \/ keyboard_hook_proc
    \/ mouse_hook_proc
    \/ ReadLock
    \/ ReadUnlock
    \/ PollCheckIdle
    \/ PollFlushCount
    \/ PollTryWrite
    \/ PollForeground
    \/ PollSleep

SpecPoller == Init /\ [][PollerNext]_vars

(* --------------------------- media tracking --------------------------- *)

\* The media infos the poller can sample.  The capture timestamp of an info
\* is read by nothing in the store and is left out.
MediaInfos ==
    [ title : { "", "T1" }, artist : { "X", "Y" },
      album : { "L1", "L2" }, source_app_id : { "S1", "S2" },
      playback_status : { "Playing", "Paused" } ]

\* What a media step records of itself: the operation, the info it was
\* given, the current media it started from, the media sessions it enqueued
\* for persistence and those it appended to the history.
MediaOpRecord(name, info, st) ==
    [ name |-> name, info |-> info, pre_media |-> current_media,
      enqueued |-> Pushed(pending_media, st.pending_media),
      appended |-> Pushed(media_history, st.media_history) ]

UpdateMedia ==
    /\ Len(media_history) < MaxMedia
    /\ \E info \in MediaInfos : \E t2 \in Later(now) :
          LET st == update_media(Store, info, now, t2)
              replaced == /\ IsSome(current_media)
                          /\ IsSome(st.current_media)
                          /\ st.current_media /= current_media
          IN  /\ replaced \/ t2 = now
              /\ SetStore(st)
              /\ now' = t2
              /\ media_op' = MediaOpRecord("UpdateMedia", Some(info), st)
    /\ UNCHANGED << op, persistVars, ringVars, pollerVars, dailyVars, otherVars,
                    runVars >>

\* Shutdown of the store while media is tracked.
FinalizeCurrentMedia ==
    /\ Len(media_history) < MaxMedia
    /\ LET st == finalize_current_session(Store, now, now)
       IN  /\ SetStore(st)
           /\ media_op' = MediaOpRecord("FinalizeCurrentSession", None, st)
    /\ UNCHANGED << now, op, persistVars, ringVars, pollerVars, dailyVars, otherVars,
                    runVars >>

MediaNext ==
    \/ Tick
    \/ UpdateMedia
    \/ FinalizeCurrentMedia

SpecMedia == Init /\ [][MediaNext]_vars

(* -------------------------- daily commitment -------------------------- *)

\* The calendar date (UTC) of an instant, format("%Y-%m-%d"): the number of
\* the day.
date_of(t) == t \div DayLength

\* DATE(start_time) of a stored RFC 3339 text.
DATE(text) == date_of(text[2])

\* ActivityStore::new at instant t.
ActivityStore_new(t) ==
    [ current_session    |-> None,
      completed_sessions |-> << >>,
      app_aggregates     |-> [ p \in ProcessNames |-> ApplicationStats ],
      last_input_time    |-> t,
      pending_sessions   |-> << >>,
      current_media      |-> None,
      media_history      |-> << >>,
      pending_media      |-> << >> ]

\* crypto::merkle::hash_pair: SHA-256 of the two hex strings in a row.
hash_pair(left, right) == << "sha256", left, right >>

\* A round that promotes the last hash of a level of odd length unpaired.
NextLevel_PromotingOddLast(current_level) ==
    [ i \in 1 .. ((Len(current_level) + 1) \div 2) |->
        IF 2 * i <= Len(current_level)
        THEN hash_pair(current_level[2 * i - 1], current_level[2 * i])
        ELSE current_level[2 * i - 1] ]

\* One round of the loop of build_merkle_root: adjacent hashes paired, the
\* last one paired with itself in a level of odd length.
NextLevel(current_level) ==
    [ i \in 1 .. ((Len(current_level) + 1) \div 2) |->
        IF 2 * i <= Len(current_level)
        THEN hash_pair(current_level[2 * i - 1], current_level[2 * i])
        ELSE hash_pair(current_level[2 * i - 1], current_level[2 * i - 1]) ]

RECURSIVE MerkleLevels(_)
MerkleLevels(current_level) ==
    IF Len(current_level) <= 1
    THEN current_level[1]
    ELSE MerkleLevels(NextLevel(current_level))

\* crypto::merkle::build_merkle_root.
build_merkle_root(hashes) ==
    IF Len(hashes) = 0 THEN None
    ELSE IF Len(hashes) = 1 THEN Some(hashes[1])
    ELSE Some(MerkleLevels(hashes))

\* ORDER BY start_time: a row put into a sorted list after the rows that
\* start no later.
InsertByStart(sorted, row) ==
    LET k == Cardinality({ i \in DOMAIN sorted :
                             sorted[i].start_time[2] <= row.start_time[2] })
    IN  SubSeq(sorted, 1, k) \o << row >> \o SubSeq(sorted, k + 1, Len(sorted))

RECURSIVE SortByStart(_)
SortByStart(rows) ==
    IF rows = << >> THEN << >>
    ELSE InsertByStart(SortByStart(SubSeq(rows, 1, Len(rows) - 1)),
                       rows[Len(rows)])

\* Database::get_session_hashes_for_date: the hashes of the rows of a date,
\* in ascending order of start time.
get_session_hashes_for_date(db, date) ==
    LET OfDate(row) == DATE(row.start_time) = date /\ IsSome(row.hash)
        rows == SortByStart(SelectSeq(db, OfDate))
    IN  [ i \in 1 .. Len(rows) |-> Unwrap(rows[i].hash) ]

\* Database::get_previous_day_root: the root of the record of the most
\* recent date strictly before a date.
get_previous_day_root(tbl, date) ==
    LET earlier == { i \in DOMAIN tbl : tbl[i].date < date }
    IN  IF earlier = {} THEN None
        ELSE LET i == CHOOSE j \in earlier :
                          \A k \in earlier : tbl[k].date <= tbl[j].date
             IN  Some(tbl[i].merkle_root)

\* Database::save_daily_integrity: upsert on the primary key date.
save_daily_integrity(tbl, record) ==
    IF \E i \in DOMAIN tbl : tbl[i].date = record.date
    THEN LET i == CHOOSE j \in DOMAIN tbl : tbl[j].date = record.date
         IN  SubSeq(tbl, 1, i - 1) \o << record >> \o SubSeq(tbl, i + 1, Len(tbl))
    ELSE Append(tbl, record)

RECURSIVE Descending(_)
Descending(S) ==
    IF S = {} THEN << >>
    ELSE LET m == CHOOSE d \in S : \A e \in S : e <= d
         IN  << m >> \o Descending(S \ {m})

\* Database::get_dates_missing_integrity: the dates before today that have
\* sessions and no daily_integrity record, most recent first.
get_dates_missing_integrity(db, tbl, today) ==
    Descending({ d \in { DATE(db[i].start_time) : i \in DOMAIN db } :
                   /\ d < today
                   /\ \A j \in DOMAIN tbl : tbl[j].date /= d })

\* The text "genesis" that stands for an absent prior root in the signed
\* data.
Genesis == << "genesis" >>

\* A compute_daily_integrity that never chains to the prior day.
compute_daily_integrity_WithoutPrior(db, tbl, km, date) ==
    IF ~IsSome(km) THEN tbl
    ELSE LET hashes == get_session_hashes_for_date(db, date)
         IN  IF Len(hashes) = 0 THEN tbl
             ELSE LET merkle_root == Unwrap(build_merkle_root(hashes))
                      sign_data   == << merkle_root, Genesis, date >>
                  IN  save_daily_integrity(tbl,
                        [ date          |-> date,
                          merkle_root   |-> merkle_root,
                          prev_day_root |-> None,
                          session_count |-> Len(hashes),
                          signature     |-> sign_hash(sign_data, Unwrap(km)) ])

\* A compute_daily_integrity that goes on without a key and leaves the
\* record unsigned.
compute_daily_integrity_Unsigned(db, tbl, km, date) ==
    LET hashes == get_session_hashes_for_date(db, date)
    IN  IF Len(hashes) = 0 THEN tbl
        ELSE LET merkle_root   == Unwrap(build_merkle_root(hashes))
                 prev_day_root == get_previous_day_root(tbl, date)
                 sign_data     ==
                     << merkle_root,
                        IF IsSome(prev_day_root)
                        THEN Unwrap(prev_day_root) ELSE Genesis,
                        date >>
             IN  save_daily_integrity(tbl,
                   [ date          |-> date,
                     merkle_root   |-> merkle_root,
                     prev_day_root |-> prev_day_root,
                     session_count |-> Len(hashes),
                     signature     |-> IF IsSome(km)
                                       THEN sign_hash(sign_data, Unwrap(km))
                                       ELSE << >> ])

\* store::compute_daily_integrity: the daily_integrity table afterwards.
compute_daily_integrity(db, tbl, km, date) ==
    IF ~IsSome(km) THEN tbl
    ELSE LET hashes == get_session_hashes_for_date(db, date)
         IN  IF Len(hashes) = 0 THEN tbl
             ELSE LET merkle_root   == Unwrap(build_merkle_root(hashes))
                      prev_day_root == get_previous_day_root(tbl, date)
                      sign_data     ==
                          << merkle_root,
                             IF IsSome(prev_day_root)
                             THEN Unwrap(prev_day_root) ELSE Genesis,
                             date >>
                  IN  save_daily_integrity(tbl,
                        [ date          |-> date,
                          merkle_root   |-> merkle_root,
                          prev_day_root |-> prev_day_root,
                          session_count |-> Len(hashes),
                          signature     |-> sign_hash(sign_data, Unwrap(km)) ])

\* One call of compute_daily_integrity: its date and the table before and
\* after it.
ComputeCall(db, tbl, km, date) ==
    [ date |-> date, pre |-> tbl,
      post |-> compute_daily_integrity(db, tbl, km, date) ]

\* The table after a list of calls that started from tbl.
TableAfter(tbl, calls) ==
    IF calls = << >> THEN tbl ELSE calls[Len(calls)].post

\* The loop of check_and_compute_missing_integrity: the calls it makes.
RECURSIVE ComputeMissing(_, _, _, _)
ComputeMissing(db, tbl, km, dates) ==
    IF dates = << >> THEN << >>
    ELSE LET call == ComputeCall(db, tbl, km, Head(dates))
         IN  << call >> \o ComputeMissing(db, call.post, km, Tail(dates))

\* store::check_and_compute_missing_integrity, today read from the clock:
\* the calls of compute_daily_integrity it makes, in order.
check_and_compute_missing_integrity(db, tbl, km, today) ==
    ComputeMissing(db, tbl, km, get_dates_missing_integrity(db, tbl, today))

\* A finalize_and_save that computes the daily integrity before it saves.
finalize_and_save_ComputeFirst(st, db, tbl, km, failing, t1, t2) ==
    LET finalized == finalize_current_session(st, t1, t1)
        call      == ComputeCall(db, tbl, km, date_of(t2))
        saved     == save_pending_to_db(finalized, db, km, failing)
    IN  [ store |-> saved.store, batch |-> finalized.pending_sessions,
          sessions |-> saved.sessions, calls |-> << call >> ]

\* store::finalize_and_save; t1 is the read of the finalize() calls and t2
\* the read of today.
finalize_and_save(st, db, tbl, km, failing, t1, t2) ==
    LET finalized == finalize_current_session(st, t1, t1)
        saved     == save_pending_to_db(finalized, db, km, failing)
        call      == ComputeCall(saved.sessions, tbl, km, date_of(t2))
    IN  [ store |-> saved.store, batch |-> finalized.pending_sessions,
          sessions |-> saved.sessions, calls |-> << call >> ]

\* The record of a persistence step.
DailyOpRecord(name, km, batch, failing, sessions, calls) ==
    [ name |-> name, key |-> km,
      after_shutdown |-> process = "exited" /\ IsSome(key_manager),
      batch |-> batch, failing |-> failing,
      rows |-> Pushed(db_sessions, sessions), calls |-> calls ]

\* The store operation record of a store nothing was done to.
NoOp ==
    [ name |-> "new", counts |-> <<0, 0, 0>>, at |-> 0, window |-> None,
      pre_session |-> None, pre_last_input |-> 0,
      enqueued |-> <<>>, appended |-> <<>>, aggregated |-> 0 ]

\* The window in the foreground in the runs of the daily commitment.
DailyWindow == CHOOSE w \in Windows : w.hwnd = 1

\* A switch_session call in a running process, while the log and the
\* pending queue hold fewer than MaxLog sessions.
DailySwitch ==
    /\ process = "running"
    /\ Len(db_sessions) + Len(pending_sessions) < MaxLog
    /\ SetStore(switch_session(Store, DailyWindow, now, now, now))
    /\ UNCHANGED << now, op, persistVars, auxVars, ringVars, pollerVars >>

\* The periodic save_pending_to_db of the polling loop.
DailySave ==
    /\ process = "running"
    /\ pending_sessions /= << >>
    /\ \E failing \in SUBSET (1 .. Len(pending_sessions)) :
          LET r == save_pending_to_db(Store, db_sessions, key_manager, failing)
          IN  /\ SetStore(r.store)
              /\ db_sessions' = r.sessions
              /\ daily_op' = DailyOpRecord("save_pending_to_db", key_manager,
                                           pending_sessions, failing,
                                           r.sessions, << >>)
    /\ UNCHANGED << now, op, key_manager, ringVars, pollerVars, media_op, otherVars,
                    runVars, daily_integrity, process >>

\* Shutdown: finalize_and_save, and the process exits.
Shutdown ==
    /\ process = "running"
    /\ \E failing \in SUBSET (1 .. Len(pending_sessions) + 1) :
       \E r \in LaterReads(now) :
          LET f == finalize_and_save(Store, db_sessions, daily_integrity,
                                     key_manager, failing, r[1], r[2])
          IN  /\ failing \subseteq 1 .. Len(f.batch)
              /\ SetStore(ActivityStore_new(r[2]))
              /\ db_sessions' = f.sessions
              /\ daily_integrity' = TableAfter(daily_integrity, f.calls)
              /\ daily_op' = DailyOpRecord("finalize_and_save", key_manager,
                                           f.batch, failing, f.sessions, f.calls)
              /\ now' = r[2]
    /\ process' = "exited"
    /\ op' = NoOp
    /\ UNCHANGED << key_manager, ringVars, pollerVars, media_op, otherVars, runVars >>

\* The process is killed: nothing is finalized, saved or computed.
Crash ==
    /\ process = "running"
    /\ process' = "crashed"
    /\ SetStore(ActivityStore_new(now))
    /\ op' = NoOp
    /\ daily_op' = DailyOpRecord("crash", key_manager, << >>, {},
                                 db_sessions, << >>)
    /\ UNCHANGED << now, persistVars, ringVars, pollerVars, media_op, otherVars,
                    runVars, daily_integrity >>

\* Startup: the recovery of the missing daily records; the key manager
\* initializes, or fails to, on its first use; a new store.
Startup ==
    /\ process /= "running"
    /\ \E km \in { None, Some(SigningKey) } :
          LET calls == check_and_compute_missing_integrity(db_sessions,
                           daily_integrity, km, date_of(now))
          IN  /\ key_manager' = km
              /\ daily_integrity' = TableAfter(daily_integrity, calls)
              /\ daily_op' = DailyOpRecord("check_and_compute_missing_integrity",
                                           km, << >>, {}, db_sessions, calls)
    /\ process' = "running"
    /\ SetStore(ActivityStore_new(now))
    /\ op' = NoOp
    /\ UNCHANGED << now, db_sessions, ringVars, pollerVars, media_op, otherVars, runVars >>

DailyNext ==
    \/ Tick
    \/ DailySwitch
    \/ DailySave
    \/ Shutdown
    \/ Crash
    \/ Startup

SpecDaily == PersistInit /\ [][DailyNext]_vars

(* ------------------------- a run to its shutdown ---------------------- *)

\* The main thread runs the message loop, which serves the hooks, and then
\* the shutdown sequence of main.rs; the polling thread runs its loop until
\* it sees the flag.  Each step is one atomic operation or one critical
\* section; no other thread holds the lock of the store.

\* flush_counters_to_store with the lock free: the five swaps, and
\* add_input_counts when a count is not zero.
flush_counters_to_store(st, c, t) ==
    LET keystrokes   == c["KEYSTROKE_COUNT"]
        total_clicks == c["LEFT_CLICK_COUNT"] + c["RIGHT_CLICK_COUNT"]
                          + c["MIDDLE_CLICK_COUNT"]
        scrolls      == c["SCROLL_COUNT"]
    IN  IF keystrokes > 0 \/ total_clicks > 0 \/ scrolls > 0
        THEN add_input_counts(st, keystrokes, total_clicks, scrolls, t, t, t)
        ELSE st

\* JoinHandle::join returns without waiting for the thread.
Joined_WithoutWaiting == TRUE

\* JoinHandle::join returns once the polling thread has finished.
Joined == poller.pc = "done"

\* FinalizeCurrentSession of the shutdown sequence has run.
Finalized == main \in { "save", "integrity", "done" }

\* The foreground window is not the window the polling thread saw last,
\* whose session is current.
WindowChanged ==
    /\ IsSome(poller.last_hwnd)
    /\ poller.last_hwnd /= Some(Unwrap(foreground).hwnd)

\* The uncredited input that followed a change to one of the windows S.
GapSum(S) ==
    LET RECURSIVE Sum(_)
        Sum(T) == IF T = {} THEN 0
                  ELSE LET w == CHOOSE v \in T : TRUE
                       IN  gap_input[w] + Sum(T \ {w})
    IN  Sum(S)

\* The foreground window changes.
ForegroundChange ==
    /\ \E w \in Windows : /\ foreground /= Some(w)
                          /\ foreground' = Some(w)
    /\ UNCHANGED << now, storeVars, op, persistVars, ringVars, pollerVars,
                    media_op, otherVars, daily_integrity, process, daily_op, gap_input, gap_credit,
                    shutdown, main, db_save_counter, late, final_session >>

\* The keyboard hook, called from the message loop of the main thread.
RunHook ==
    /\ main = "message_loop"
    /\ Events < MaxEvents
    /\ \E msg \in KeyboardMessages :
          /\ IsSome(CounterOf(msg))
          /\ LET counter == Unwrap(CounterOf(msg))
             IN  /\ counters'    = fetch_add(counters, counter)
                 /\ increments'  = [ increments EXCEPT ![counter] = @ + 1 ]
                 /\ since_flush' = [ since_flush EXCEPT ![counter] = @ + 1 ]
    /\ gap_input' = IF WindowChanged
                    THEN [ gap_input EXCEPT ![Unwrap(foreground)] = @ + 1 ]
                    ELSE gap_input
    /\ UNCHANGED << now, storeVars, op, persistVars, flushed, pollerVars,
                    media_op, otherVars, daily_integrity, process, daily_op, foreground,
                    gap_credit, shutdown, main, db_save_counter, late,
                    final_session >>

\* Loop head of the polling thread: check_and_split_on_idle.
RunCheckIdle ==
    /\ poller.pc = "check_idle"
    /\ SetStore(check_and_split_on_idle(Store, now, now))
    /\ poller' = [ poller EXCEPT !.pc = "load" ]
    /\ late' = ( late \/ Finalized )
    /\ UNCHANGED << now, op, persistVars, ringVars, store_readers, credited,
                    media_op, otherVars, daily_integrity, process, daily_op, foreground,
                    gap_input, gap_credit, shutdown, main, db_save_counter, final_session >>

\* shutdown.load(SeqCst): the loop goes on or breaks.
RunLoadShutdown ==
    /\ poller.pc = "load"
    /\ poller' = [ poller EXCEPT !.pc = IF shutdown THEN "final_flush"
                                                     ELSE "flush" ]
    /\ UNCHANGED << now, storeVars, op, persistVars, ringVars, store_readers,
                    credited, auxVars >>

\* flush_counters_to_store, first in poll_cycle and once more after the
\* loop.
RunFlush ==
    /\ poller.pc \in { "flush", "final_flush" }
    /\ LET st == flush_counters_to_store(Store, counters, now)
           own == { w \in Windows : /\ IsSome(st.current_session)
                                    /\ WindowOf(Unwrap(st.current_session)) = w }
       IN  /\ SetStore(st)
           /\ gap_credit' =
                 IF IsSome(st.current_session)
                 THEN [ new |-> gap_credit.new + GapSum(own),
                        old |-> gap_credit.old + GapSum(Windows \ own) ]
                 ELSE gap_credit
    /\ gap_input'   = [ w \in Windows |-> 0 ]
    /\ counters'    = [ c \in Counters |-> 0 ]
    /\ flushed'     = [ c \in Counters |-> flushed[c] + counters[c] ]
    /\ since_flush' = [ c \in Counters |-> 0 ]
    /\ credited'    = [ c \in Counters |-> credited[c] + counters[c] ]
    /\ poller' = [ poller EXCEPT !.pc = IF poller.pc = "flush"
                                         THEN "foreground" ELSE "done" ]
    /\ late' = ( late \/ Finalized )
    /\ UNCHANGED << now, op, persistVars, increments, store_readers,
                    media_op, otherVars, daily_integrity, process, daily_op, foreground,
                    shutdown, main, db_save_counter, final_session >>

\* The rest of poll_cycle: the foreground window, and switch_session when
\* it is not the window seen last.
RunForeground ==
    /\ poller.pc = "foreground"
    /\ LET fg == Unwrap(foreground)
           window_changed == poller.last_hwnd /= Some(fg.hwnd)
       IN  IF window_changed
           THEN /\ CanStart
                /\ SetStore(switch_session(Store, fg, now, now, now))
                /\ poller' = [ poller EXCEPT !.pc = "save_counter",
                                             !.last_hwnd = Some(fg.hwnd) ]
                /\ late' = ( late \/ Finalized )
           ELSE /\ UNCHANGED << storeVars, late >>
                /\ poller' = [ poller EXCEPT !.pc = "save_counter" ]
    /\ UNCHANGED << now, op, persistVars, ringVars, store_readers, credited,
                    media_op, otherVars, daily_integrity, process, daily_op, foreground,
                    gap_input, gap_credit, shutdown, main, db_save_counter, final_session >>

\* The periodic save of the loop: save_pending_to_db every
\* DB_SAVE_INTERVAL cycles.
RunSaveCounter ==
    /\ poller.pc = "save_counter"
    /\ IF db_save_counter + 1 >= DB_SAVE_INTERVAL
       THEN LET r == save_pending_to_db(Store, db_sessions, key_manager, {})
            IN  /\ db_save_counter' = 0
                /\ SetStore(r.store)
                /\ db_sessions' = r.sessions
                /\ late' = ( late \/ Finalized )
       ELSE /\ db_save_counter' = db_save_counter + 1
            /\ UNCHANGED << storeVars, db_sessions, late >>
    /\ poller' = [ poller EXCEPT !.pc = "sleep" ]
    /\ UNCHANGED << now, op, key_manager, ringVars, store_readers, credited,
                    media_op, otherVars, daily_integrity, process, daily_op, foreground,
                    gap_input, gap_credit, shutdown, main, final_session >>

\* thread::sleep(poll_interval).
RunSleep ==
    /\ poller.pc = "sleep"
    /\ now < MaxTime
    /\ now' = now + 1
    /\ poller' = [ poller EXCEPT !.pc = "check_idle" ]
    /\ UNCHANGED << storeVars, op, persistVars, ringVars, store_readers,
                    credited, auxVars >>

\* The message loop returns: shutdown.store(true, SeqCst).
MainStop ==
    /\ main = "message_loop"
    /\ shutdown' = TRUE
    /\ main' = "join"
    /\ UNCHANGED << now, storeVars, op, persistVars, ringVars, pollerVars,
                    media_op, otherVars, daily_integrity, process, daily_op, foreground,
                    gap_input, gap_credit, db_save_counter, late, final_session >>

\* polling_handle.join().
MainJoin ==
    /\ main = "join"
    /\ Joined
    /\ main' = "finalize"
    /\ UNCHANGED << now, storeVars, op, persistVars, ringVars, pollerVars,
                    media_op, otherVars, daily_integrity, process, daily_op, foreground,
                    gap_input, gap_credit, shutdown, db_save_counter, late, final_session >>

\* finalize_and_save, its first step: finalize_current_session.
MainFinalize ==
    /\ main = "finalize"
    /\ LET st == finalize_current_session(Store, now, now)
       IN  /\ SetStore(st)
           /\ final_session' = IF IsSome(current_session)
                           THEN Some(st.pending_sessions[Len(st.pending_sessions)])
                           ELSE None
    /\ main' = "save"
    /\ UNCHANGED << now, op, persistVars, ringVars, pollerVars,
                    media_op, otherVars, daily_integrity, process, daily_op, foreground,
                    gap_input, gap_credit, shutdown, db_save_counter, late >>

\* finalize_and_save, its second step: save_pending_to_db.
MainSave ==
    /\ main = "save"
    /\ LET r == save_pending_to_db(Store, db_sessions, key_manager, {})
       IN  /\ SetStore(r.store)
           /\ db_sessions' = r.sessions
           /\ daily_op' = DailyOpRecord("save_pending_to_db", key_manager,
                                        pending_sessions, {}, r.sessions, << >>)
    /\ main' = "integrity"
    /\ UNCHANGED << now, op, key_manager, ringVars, pollerVars,
                    media_op, otherVars, daily_integrity, process, foreground,
                    gap_input, gap_credit, shutdown, db_save_counter, late, final_session >>

\* finalize_and_save, its last step: compute_daily_integrity(today).
MainIntegrity ==
    /\ main = "integrity"
    /\ LET call == ComputeCall(db_sessions, daily_integrity, key_manager,
                               date_of(now))
       IN  /\ daily_integrity' = call.post
           /\ daily_op' = [ daily_op EXCEPT !.name = "finalize_and_save",
                                            !.calls = << call >> ]
    /\ main' = "done"
    /\ UNCHANGED << now, storeVars, op, persistVars, ringVars, pollerVars,
                    media_op, otherVars, process, foreground,
                    gap_input, gap_credit, shutdown, db_save_counter, late, final_session >>

RunNext ==
    \/ ForegroundChange
    \/ RunHook
    \/ RunCheckIdle
    \/ RunLoadShutdown
    \/ RunFlush
    \/ RunForeground
    \/ RunSaveCounter
    \/ RunSleep
    \/ MainStop
    \/ MainJoin
    \/ MainFinalize
    \/ MainSave
    \/ MainIntegrity

SpecRun == Init /\ [][RunNext]_vars

(* --------------------------- lock discipline -------------------------- *)

\* The threads that take the lock of ACTIVITY_STORE and the mutex of
\* DATABASE: the polling thread, a WebSocket connection sending its initial
\* state, and a request to GET /api/stats.
Threads == { "poller", "ws", "stats" }

\* RwLock::write and RwLock::try_write succeed when nobody holds the lock.
WriteFree == store_lock.writer = None /\ store_lock.readers = {}

\* A read that succeeds while a writer holds the lock.
ReadFree_IgnoringWriter == TRUE

\* RwLock::read succeeds when no writer holds the lock.
ReadFree == store_lock.writer = None

AcquireWrite(t) ==
    /\ WriteFree
    /\ store_lock' = [ store_lock EXCEPT !.writer = Some(t) ]

ReleaseWrite == store_lock' = [ store_lock EXCEPT !.writer = None ]

AcquireRead(t) ==
    /\ ReadFree
    /\ store_lock' = [ store_lock EXCEPT !.readers = @ \cup {t} ]

ReleaseRead(t) == store_lock' = [ store_lock EXCEPT !.readers = @ \ {t} ]

\* Mutex::lock of DATABASE.
LockDatabase(t) == db_lock = None /\ db_lock' = Some(t)

\* The guard of the mutex is dropped.
UnlockDatabase == db_lock' = None

Goto(t, pc) == thread_pc' = [ thread_pc EXCEPT ![t] = pc ]

\* The thread holds the store's lock, as its writer or as a reader.
HoldsStore(t) == store_lock.writer = Some(t) \/ t \in store_lock.readers

\* The thread holds the mutex of DATABASE; it queries or inserts under it.
HoldsDatabase(t) == db_lock = Some(t)

\* What no step of this section changes.
LockFrame == UNCHANGED << now, op, key_manager, ringVars, pollerVars, media_op,
                          dailyVars, runVars, queueVars, pureVars, cycle, write_op >>

\* The polling loop takes the write lock for check_and_split_on_idle.
LockCheckIdle ==
    /\ thread_pc["poller"] = "check_idle"
    /\ AcquireWrite("poller")
    /\ Goto("poller", "check_idle_store")
    /\ UNCHANGED << storeVars, db_sessions, db_lock >>
    /\ LockFrame

\* check_and_split_on_idle locks DATABASE to read afk_threshold_secs.
LockCheckIdleConfig ==
    /\ thread_pc["poller"] = "check_idle_store"
    /\ LockDatabase("poller")
    /\ Goto("poller", "check_idle_config")
    /\ UNCHANGED << storeVars, db_sessions, store_lock >>
    /\ LockFrame

\* get_config returns, the guard of DATABASE is dropped, the rest of
\* check_and_split_on_idle runs and the write lock is released.
LockCheckIdleDone ==
    /\ thread_pc["poller"] = "check_idle_config"
    /\ UnlockDatabase
    /\ SetStore(check_and_split_on_idle(Store, now, now))
    /\ ReleaseWrite
    /\ Goto("poller", "flush")
    /\ UNCHANGED db_sessions
    /\ LockFrame

\* flush_counters_to_store: with nothing to add, or with the lock taken by
\* another thread, the store is left alone; else try_write succeeds.
LockFlush ==
    /\ thread_pc["poller"] = "flush"
    /\ \/ /\ Goto("poller", "switch")
          /\ UNCHANGED store_lock
       \/ /\ IsSome(current_session) =>
                TotalCount(Unwrap(current_session)) < MaxCount
          /\ AcquireWrite("poller")
          /\ Goto("poller", "flush_store")
    /\ UNCHANGED << storeVars, db_sessions, db_lock >>
    /\ LockFrame

\* add_input_counts locks DATABASE to read afk_threshold_secs.
LockFlushConfig ==
    /\ thread_pc["poller"] = "flush_store"
    /\ LockDatabase("poller")
    /\ Goto("poller", "flush_config")
    /\ UNCHANGED << storeVars, db_sessions, store_lock >>
    /\ LockFrame

\* The guard is dropped, the keystroke is added, the write lock released.
LockFlushDone ==
    /\ thread_pc["poller"] = "flush_config"
    /\ UnlockDatabase
    /\ SetStore(add_input_counts(Store, 1, 0, 0, now, now, now))
    /\ ReleaseWrite
    /\ Goto("poller", "switch")
    /\ UNCHANGED db_sessions
    /\ LockFrame

\* poll_cycle: the window is the one seen last, or the write lock is taken
\* for switch_session.
LockSwitch ==
    /\ thread_pc["poller"] = "switch"
    /\ \/ /\ Goto("poller", "save_counter")
          /\ UNCHANGED store_lock
       \/ /\ AcquireWrite("poller")
          /\ Goto("poller", "switch_store")
    /\ UNCHANGED << storeVars, db_sessions, db_lock >>
    /\ LockFrame

\* switch_session with a current session locks DATABASE to read
\* min_session_duration_secs.
LockSwitchConfig ==
    /\ thread_pc["poller"] = "switch_store"
    /\ IsSome(current_session)
    /\ LockDatabase("poller")
    /\ Goto("poller", "switch_config")
    /\ UNCHANGED << storeVars, db_sessions, store_lock >>
    /\ LockFrame

\* The rest of switch_session, and the release of the write lock.
LockSwitchDone ==
    /\ \/ thread_pc["poller"] = "switch_store" /\ ~ IsSome(current_session)
                                              /\ UNCHANGED db_lock
       \/ thread_pc["poller"] = "switch_config" /\ UnlockDatabase
    /\ \E w \in Windows : SetStore(switch_session(Store, w, now, now, now))
    /\ ReleaseWrite
    /\ Goto("poller", "save_counter")
    /\ UNCHANGED db_sessions
    /\ LockFrame

\* The cycle ends, or it is the cycle of a periodic save: save_pending_to_db
\* locks DATABASE first.
LockSave ==
    /\ thread_pc["poller"] = "save_counter"
    /\ \/ /\ Goto("poller", "check_idle")
          /\ UNCHANGED db_lock
       \/ /\ LockDatabase("poller")
          /\ Goto("poller", "save_db")
    /\ UNCHANGED << storeVars, db_sessions, store_lock >>
    /\ LockFrame

\* save_pending_to_db takes the write lock while it holds DATABASE.
LockSaveDrain ==
    /\ thread_pc["poller"] = "save_db"
    /\ AcquireWrite("poller")
    /\ Goto("poller", "save_drain")
    /\ UNCHANGED << storeVars, db_sessions, db_lock >>
    /\ LockFrame

\* The queues are drained and the write lock released; the inserts follow,
\* then the guard of DATABASE is dropped.
LockSaveInsert ==
    /\ thread_pc["poller"] = "save_drain"
    /\ LET r == save_pending_to_db(Store, db_sessions, key_manager, {})
       IN  /\ SetStore(r.store)
           /\ db_sessions' = r.sessions
    /\ ReleaseWrite
    /\ UnlockDatabase
    /\ Goto("poller", "check_idle")
    /\ LockFrame

\* ws::get_current_state takes the read lock.
WsRead ==
    /\ thread_pc["ws"] = "idle"
    /\ AcquireRead("ws")
    /\ Goto("ws", "state_store")
    /\ UNCHANGED << storeVars, db_sessions, db_lock >>
    /\ LockFrame

\* It locks DATABASE for query_sessions_flexible, the read guard alive.
WsQuery ==
    /\ thread_pc["ws"] = "state_store"
    /\ LockDatabase("ws")
    /\ Goto("ws", "state_query")
    /\ UNCHANGED << storeVars, db_sessions, store_lock >>
    /\ LockFrame

\* The query returns and the guard of DATABASE is dropped.
WsQueryDone ==
    /\ thread_pc["ws"] = "state_query"
    /\ UnlockDatabase
    /\ Goto("ws", "state_message")
    /\ UNCHANGED << storeVars, db_sessions, store_lock >>
    /\ LockFrame

\* The message is built and the read guard dropped at the return.
WsDone ==
    /\ thread_pc["ws"] = "state_message"
    /\ ReleaseRead("ws")
    /\ Goto("ws", "idle")
    /\ UNCHANGED << storeVars, db_sessions, db_lock >>
    /\ LockFrame

\* routes::stats::get_stats locks DATABASE for its query.
StatsQuery ==
    /\ thread_pc["stats"] = "idle"
    /\ LockDatabase("stats")
    /\ Goto("stats", "query")
    /\ UNCHANGED << storeVars, db_sessions, store_lock >>
    /\ LockFrame

\* The query returns and the guard is dropped.
StatsQueryDone ==
    /\ thread_pc["stats"] = "query"
    /\ UnlockDatabase
    /\ Goto("stats", "sum")
    /\ UNCHANGED << storeVars, db_sessions, store_lock >>
    /\ LockFrame

\* It takes the read lock to add the current session.
StatsRead ==
    /\ thread_pc["stats"] = "sum"
    /\ AcquireRead("stats")
    /\ Goto("stats", "store")
    /\ UNCHANGED << storeVars, db_sessions, db_lock >>
    /\ LockFrame

\* The response is built and the read guard dropped.
StatsDone ==
    /\ thread_pc["stats"] = "store"
    /\ ReleaseRead("stats")
    /\ Goto("stats", "idle")
    /\ UNCHANGED << storeVars, db_sessions, db_lock >>
    /\ LockFrame

LockNext ==
    \/ LockCheckIdle
    \/ LockCheckIdleConfig
    \/ LockCheckIdleDone
    \/ LockFlush
    \/ LockFlushConfig
    \/ LockFlushDone
    \/ LockSwitch
    \/ LockSwitchConfig
    \/ LockSwitchDone
    \/ LockSave
    \/ LockSaveDrain
    \/ LockSaveInsert
    \/ WsRead
    \/ WsQuery
    \/ WsQueryDone
    \/ WsDone
    \/ StatsQuery
    \/ StatsQueryDone
    \/ StatsRead
    \/ StatsDone

SpecLock == Init /\ [][LockNext]_vars

(* --------------------------- pending queues --------------------------- *)

\* What the media poll reports here: one title, playing or paused.
QueueInfos ==
    { info \in MediaInfos : /\ info.title = "T1" /\ info.album = "L1"
                            /\ info.source_app_id = "S1" /\ info.artist = "X" }

\* What no step of this section changes.
QueueFrame == UNCHANGED << key_manager, ringVars, pollerVars, dailyVars, runVars,
                           lockVars, pureVars, cycle, write_op >>

\* A store operation that leaves the store as st: what it pushed to the
\* two pending queues is noted in push order. A finalize_current_session
\* is recorded with the instant of its first clock read, the sessions it
\* started from and those it pushed, and whether it ran before with no
\* switch_session or update_media since.
QueueStep(name, st) ==
    /\ SetStore(st)
    /\ enqueued' =
          [ sessions |-> enqueued.sessions
                           \o Pushed(pending_sessions, st.pending_sessions),
            media    |-> enqueued.media
                           \o Pushed(pending_media, st.pending_media) ]
    /\ finalize_state' =
          IF name = "FinalizeCurrentSession"
          THEN [ done |-> TRUE, last |-> TRUE, again |-> finalize_state.done,
                 at |-> now,
                 pre_session |-> current_session, pre_media |-> current_media,
                 sessions |-> Pushed(pending_sessions, st.pending_sessions),
                 media    |-> Pushed(pending_media, st.pending_media) ]
          ELSE IF name \in { "SwitchSession", "UpdateMedia" }
          THEN NotFinalizing(FALSE)
          ELSE NotFinalizing(finalize_state.done)
    /\ UNCHANGED << op, media_op, db_sessions, db_media, drained, drain_op >>
    /\ QueueFrame

QueueSwitch ==
    /\ Len(completed_sessions) < MaxHistory
    /\ QueueStep("SwitchSession",
                 switch_session(Store, DailyWindow, now, now, now))
    /\ UNCHANGED now

QueueInput ==
    /\ Len(completed_sessions) < MaxHistory
    /\ LET st == add_input_counts(Store, 1, 0, 0, now, now, now)
       IN  /\ IsSome(st.current_session) =>
                 TotalCount(Unwrap(st.current_session)) <= MaxCounted
           /\ QueueStep("AddInput", st)
    /\ UNCHANGED now

QueueCheckIdle ==
    /\ Len(completed_sessions) < MaxHistory
    /\ QueueStep("CheckAndSplitOnIdle",
                 check_and_split_on_idle(Store, now, now))
    /\ UNCHANGED now

QueueUpdateMedia ==
    /\ Len(media_history) < MaxMedia
    /\ \E info \in QueueInfos :
          QueueStep("UpdateMedia",
                    update_media(Store, info, now, now))
    /\ UNCHANGED now

\* finalize_current_session reads the clock once for each session it ends.
QueueFinalize ==
    /\ Len(completed_sessions) < MaxHistory
    /\ Len(media_history) < MaxMedia
    /\ \E t2 \in Later(now) :
          /\ ( t2 = now \/ ( IsSome(current_session) /\ IsSome(current_media) ) )
          /\ QueueStep("FinalizeCurrentSession",
                       finalize_current_session(Store, now, t2))
          /\ now' = t2

\* store::save_pending_to_db: both queues are drained and appended to their
\* tables; any insert may fail.
QueueDrain ==
    /\ pending_sessions /= << >> \/ pending_media /= << >>
    /\ \E fs \in SUBSET (1 .. Len(pending_sessions)) :
       \E fm \in SUBSET (1 .. Len(pending_media)) :
          LET r == save_pending_to_db(Store, db_sessions, key_manager, fs)
              sessions == drain_pending_sessions(Store).batch
              media    == drain_pending_media(Store).batch
          IN  /\ SetStore(r.store)
              /\ db_sessions' = r.sessions
              /\ db_media' = save_pending_media_to_db(Store, db_media, fm)
              /\ drained' =
                    [ sessions |-> drained.sessions \o sessions,
                      media    |-> drained.media \o media,
                      failed   |-> ( drained.failed \/ fs /= {} \/ fm /= {} ) ]
              /\ drain_op' =
                    [ name |-> "save_pending_to_db",
                      sessions |-> sessions, media |-> media,
                      failing_sessions |-> fs, failing_media |-> fm,
                      pre_sessions |-> db_sessions, pre_media |-> db_media,
                      left |-> r.store.pending_sessions
                                 \o r.store.pending_media ]
    /\ UNCHANGED << now, op, media_op, enqueued, finalize_state >>
    /\ QueueFrame

\* The clock, up to MaxQueueTime.
QueueTick == now < MaxQueueTime /\ Tick

QueueNext ==
    \/ QueueTick
    \/ QueueSwitch
    \/ QueueInput
    \/ QueueCheckIdle
    \/ QueueUpdateMedia
    \/ QueueFinalize
    \/ QueueDrain

SpecQueue == Init /\ [][QueueNext]_vars

(* ------------------------------ blacklist ----------------------------- *)

\* Characters of the patterns and texts: two letters and the wildcards.
GlobChars == { "a", "b", "*", "?" }

\* Characters of blacklist patterns and process names: a letter in both
\* cases, another letter, a wildcard.
EntryChars == { "a", "A", "*" }

NameChars == { "a", "A", "b" }

\* The strings over an alphabet up to a length, as sequences of characters.
Strings(chars, n) == UNION { [ 1 .. k -> chars ] : k \in 0 .. n }

\* char::to_lowercase.
LowerChar(c) == IF c = "A" THEN "a" ELSE IF c = "B" THEN "b" ELSE c

\* str::to_lowercase.
to_lowercase(text) == [ i \in 1 .. Len(text) |-> LowerChar(text[i]) ]

\* while p.peek() == Some(&'*') { p.next(); }
RECURSIVE skip_stars(_)
skip_stars(p) ==
    IF p /= << >> /\ Head(p) = "*" THEN skip_stars(Tail(p)) ELSE p

RECURSIVE match_helper(_, _)
RECURSIVE try_each_position(_, _)

\* A star that stands for the empty string only.
try_each_position_Once(p, t) == match_helper(p, t)

\* The inner loop of the star arm: the rest of the pattern is tried at the
\* position reached, then one character further, until the text is used up.
try_each_position(p, t) ==
    IF match_helper(p, t) THEN TRUE
    ELSE IF t = << >> THEN FALSE
    ELSE try_each_position(p, Tail(t))

\* match_helper of pattern_matches: p and t are what the two iterators
\* have left.
match_helper(p, t) ==
    IF p /= << >> /\ Head(p) = "*"
    THEN LET rest == skip_stars(Tail(p))
         IN  IF rest = << >> THEN TRUE ELSE try_each_position(rest, t)
    ELSE IF p /= << >> /\ t /= << >> /\ Head(p) = "?"
    THEN match_helper(Tail(p), Tail(t))
    ELSE IF p /= << >> /\ t /= << >> /\ Head(p) = Head(t)
    THEN match_helper(Tail(p), Tail(t))
    ELSE p = << >> /\ t = << >>

\* database::pattern_matches.
pattern_matches(pattern, text) == match_helper(pattern, text)

\* Database::is_blacklisted; blacklist is what get_blacklist returns, None
\* for an error.
is_blacklisted(blacklist, process_name) ==
    IF ~ IsSome(blacklist) THEN FALSE
    ELSE LET name_lower == to_lowercase(process_name)
             patterns == Unwrap(blacklist)
         IN  \E i \in 1 .. Len(patterns) :
                pattern_matches(to_lowercase(patterns[i]), name_lower)

\* The calls made: pattern_matches on a pattern and a text, is_blacklisted
\* on a blacklist of up to MaxEntries patterns and a process name.
GlobCases ==
    { [ NoGlob EXCEPT !.kind = "pattern_matches", !.pattern = p, !.text = t ] :
        p \in Strings(GlobChars, MaxPattern), t \in Strings(GlobChars, MaxText) }
    \cup
    { [ NoGlob EXCEPT !.kind = "is_blacklisted", !.blacklist = b,
                      !.process_name = n ] :
        b \in { None } \cup
              { Some(l) : l \in Strings(Strings(EntryChars, MaxEntry), MaxEntries) },
        n \in Strings(NameChars, MaxEntry) }

GlobInit ==
    /\ StoreInit
    /\ db_sessions = << >>
    /\ key_manager = Some(SigningKey)
    /\ RingInit
    /\ AuxInit
    /\ glob \in GlobCases
    /\ merkle = NoMerkle
    /\ cycle = NoCycle
    /\ write_op = NoWrite(FALSE)

GlobFrame == UNCHANGED << now, storeVars, op, persistVars, ringVars, pollerVars,
                          media_op, dailyVars, runVars, lockVars, queueVars, merkle, cycle,
                          write_op >>

PatternMatches ==
    /\ glob.kind = "pattern_matches"
    /\ glob.result = None
    /\ glob' = [ glob EXCEPT !.result = Some(pattern_matches(glob.pattern, glob.text)) ]
    /\ GlobFrame

IsBlacklisted ==
    /\ glob.kind = "is_blacklisted"
    /\ glob.result = None
    /\ glob' = [ glob EXCEPT !.result =
                                Some(is_blacklisted(glob.blacklist, glob.process_name)) ]
    /\ GlobFrame

GlobNext ==
    \/ PatternMatches
    \/ IsBlacklisted

SpecGlob == GlobInit /\ [][GlobNext]_vars

(* ----------------------------- Merkle root ---------------------------- *)

\* The session hashes a list is made of.
LeafHashes == { << "hash", i >> : i \in 1 .. 3 }

\* crypto::merkle::verify_merkle_root; the empty string is the empty
\* sequence of characters.
verify_merkle_root(hashes, expected_root) ==
    LET computed_root == build_merkle_root(hashes)
    IN  IF IsSome(computed_root)
        THEN Unwrap(computed_root) = expected_root
        ELSE expected_root = << >>

MerkleInit ==
    /\ StoreInit
    /\ db_sessions = << >>
    /\ key_manager = Some(SigningKey)
    /\ RingInit
    /\ AuxInit
    /\ glob = NoGlob
    /\ cycle = NoCycle
    /\ write_op = NoWrite(FALSE)
    /\ merkle \in { [ NoMerkle EXCEPT !.hashes = h ] :
                      h \in UNION { [ 1 .. n -> LeafHashes ] : n \in 0 .. MaxHashes } }

MerkleFrame == UNCHANGED << now, storeVars, op, persistVars, ringVars, pollerVars,
                            media_op, dailyVars, runVars, lockVars, queueVars, glob, cycle,
                            write_op >>

BuildMerkleRoot ==
    /\ ~ merkle.built
    /\ merkle' = [ merkle EXCEPT !.built = TRUE,
                                 !.root = build_merkle_root(merkle.hashes) ]
    /\ MerkleFrame

\* The list is verified against the root built from it.
VerifyMerkleRoot ==
    /\ merkle.built
    /\ IsSome(merkle.root)
    /\ merkle.verified = None
    /\ merkle' = [ merkle EXCEPT !.verified =
                      Some(verify_merkle_root(merkle.hashes, Unwrap(merkle.root))) ]
    /\ MerkleFrame

MerkleNext ==
    \/ BuildMerkleRoot
    \/ VerifyMerkleRoot

SpecMerkle == MerkleInit /\ [][MerkleNext]_vars

(* ---------------------------- the poll cycle -------------------------- *)

\* The polling thread of window_poller.rs step by step, with the locks it
\* takes, beside a WebSocket connection that sends its initial state and
\* the main thread that ends the message loop.  A step is one operation
\* that cannot block once it has started: a blocking lock() or write() is
\* the guard of the step that follows it.

\* PollerConfig::default(), the configuration main.rs spawns the thread with.
track_title_changes == FALSE

\* A process name as the characters is_blacklisted compares.
ProcessChars(process_name) ==
    IF process_name = "a.exe" THEN << "a", ".", "e", "x", "e" >>
    ELSE << "b", ".", "e", "x", "e" >>

\* The blacklist tables a run starts with: empty, or the pattern B* .
CycleBlacklists == { Some(<< >>), Some(<< << "B", "*" >> >>) }

\* What fetch_current_media returns: nothing, or one title playing.
CycleMedia ==
    { None } \cup { Some(info) : info \in { i \in QueueInfos : is_playing(i) } }

\* db_save_counter >= DB_SAVE_INTERVAL after the increment: a save is due
\* at every cycle.
SaveDue_EveryCycle(counter) == TRUE

\* db_save_counter >= DB_SAVE_INTERVAL after the increment.
SaveDue(counter) == counter >= DB_SAVE_INTERVAL

\* The blacklisted branch of poll_cycle returning with its locals untouched.
BlacklistedSample_Forgotten(p, w) == p

\* The blacklisted branch of poll_cycle: the locals take the window and its
\* title, and the function returns.
BlacklistedSample(p, w) == [ p EXCEPT !.last_hwnd = Some(w.hwnd) ]

\* The steps named are noted for the cycle under way, and as steps taken
\* after the flag was seen when it was.
Logged(names) ==
    [ cycle EXCEPT !.steps = @ \o names,
                   !.after = IF cycle.observed THEN @ \o names ELSE @ ]

\* What no step of the polling thread changes.
CycleFrame == UNCHANGED << now, op, key_manager, increments, flushed, since_flush,
                           store_readers, credited, media_op, dailyVars,
                           foreground, gap_input, gap_credit, shutdown, main,
                           late, final_session, thread_pc, queueVars, pureVars, write_op >>

\* What no step of the other threads changes.
CycleEnvFrame == UNCHANGED << storeVars, op, persistVars, flushed, since_flush,
                              pollerVars, media_op, dailyVars, gap_input,
                              gap_credit, late, final_session, db_save_counter,
                              lockVars, queueVars, pureVars, cycle, write_op >>

\* The loop head: ACTIVITY_STORE.write() for check_and_split_on_idle.
CycleCheckIdle ==
    /\ poller.pc = "check_idle"
    /\ AcquireWrite("poller")
    /\ poller' = [ poller EXCEPT !.pc = "check_idle_store" ]
    /\ UNCHANGED << storeVars, db_sessions, counters, db_save_counter, db_lock, cycle >>
    /\ CycleFrame

\* check_and_split_on_idle: DATABASE is locked for afk_threshold_secs and
\* unlocked, the session is split when idle, the write lock is released.
CycleCheckIdleDone ==
    /\ poller.pc = "check_idle_store"
    /\ db_lock = None
    /\ SetStore(check_and_split_on_idle(Store, now, now))
    /\ ReleaseWrite
    /\ poller' = [ poller EXCEPT !.pc = "load" ]
    /\ cycle' = Logged(<< "CheckAndSplitOnIdle" >>)
    /\ UNCHANGED << db_sessions, counters, db_save_counter, db_lock >>
    /\ CycleFrame

\* shutdown.load(SeqCst): the loop breaks or goes on; it goes on while
\* fewer than MaxCycles cycles were completed.
CycleLoadShutdown ==
    /\ poller.pc = "load"
    /\ shutdown \/ cycle.completed < MaxCycles
    /\ poller' = [ poller EXCEPT !.pc = IF shutdown THEN "final_flush" ELSE "flush" ]
    /\ cycle' = [ Logged(<< "shutdown" >>) EXCEPT !.observed = shutdown ]
    /\ UNCHANGED << storeVars, db_sessions, counters, db_save_counter, store_lock, db_lock >>
    /\ CycleFrame

\* flush_counters_to_store, in poll_cycle and after the loop: the counters
\* are swapped to zero; with a count to add, try_write takes the write lock
\* or fails and the counts are dropped.
CycleFlush ==
    /\ poller.pc \in { "flush", "final_flush" }
    /\ LET keystrokes == counters["KEYSTROKE_COUNT"]
           next == IF poller.pc = "flush" THEN "media" ELSE "done"
           store == IF poller.pc = "flush" THEN "flush_store" ELSE "final_flush_store"
       IN  /\ counters' = [ c \in Counters |-> 0 ]
           /\ cycle' = Logged(<< "flush" >>)
           /\ IF keystrokes > 0 /\ WriteFree
              THEN /\ AcquireWrite("poller")
                   /\ poller' = [ poller EXCEPT !.pc = store,
                                                !.keystrokes = keystrokes ]
              ELSE /\ poller' = [ poller EXCEPT !.pc = next ]
                   /\ UNCHANGED store_lock
    /\ UNCHANGED << storeVars, db_sessions, db_save_counter, db_lock >>
    /\ CycleFrame

\* add_input_counts under the write lock: DATABASE is locked for
\* afk_threshold_secs and unlocked, the counts are added, the lock released.
CycleFlushDone ==
    /\ poller.pc \in { "flush_store", "final_flush_store" }
    /\ db_lock = None
    /\ SetStore(add_input_counts(Store, poller.keystrokes, 0, 0, now, now, now))
    /\ ReleaseWrite
    /\ poller' = [ poller EXCEPT !.pc = IF poller.pc = "flush_store"
                                         THEN "media" ELSE "done",
                                 !.keystrokes = 0 ]
    /\ cycle' = Logged(<< "AddInput" >>)
    /\ UNCHANGED << db_sessions, counters, db_save_counter, db_lock >>
    /\ CycleFrame

\* poll_media: with a media info fetched, try_write takes the write lock for
\* update_media or fails and the sample is dropped.
CyclePollMedia ==
    /\ poller.pc = "media"
    /\ \E media_info \in CycleMedia :
          IF IsSome(media_info) /\ WriteFree
          THEN /\ SetStore(update_media(Store, Unwrap(media_info), now, now))
               /\ cycle' = Logged(<< "media", "UpdateMedia" >>)
          ELSE /\ UNCHANGED storeVars
               /\ cycle' = Logged(<< "media" >>)
    /\ poller' = [ poller EXCEPT !.pc = "foreground" ]
    /\ UNCHANGED << db_sessions, counters, db_save_counter, store_lock, db_lock >>
    /\ CycleFrame

\* poll_cycle from get_foreground_window on: no window, the window seen
\* last, or a window whose process is looked up in the blacklist.
CycleForeground ==
    /\ poller.pc = "foreground"
    /\ IF ~ IsSome(foreground)
       THEN /\ poller' = [ poller EXCEPT !.pc = "save_counter" ]
            /\ cycle' = [ Logged(<< "foreground" >>) EXCEPT !.hwnd = None ]
       ELSE LET hwnd == Unwrap(foreground)
                window_changed == poller.last_hwnd /= Some(hwnd.hwnd)
                title_changed  == /\ ~ window_changed
                                  /\ track_title_changes
                                  /\ cycle.last_title /= hwnd.window_title
            IN  /\ poller' = [ poller EXCEPT !.pc =
                                  IF window_changed \/ title_changed
                                  THEN "blacklist" ELSE "save_counter" ]
                /\ cycle' = [ Logged(<< "foreground" >>) EXCEPT !.hwnd = foreground ]
    /\ UNCHANGED << storeVars, db_sessions, counters, db_save_counter, store_lock, db_lock >>
    /\ CycleFrame

\* DATABASE is locked for is_blacklisted and unlocked: a blacklisted window
\* becomes the last sample and poll_cycle returns.
CycleBlacklist ==
    /\ poller.pc = "blacklist"
    /\ db_lock = None
    /\ LET hwnd == Unwrap(cycle.hwnd)
           blacklisted == is_blacklisted(cycle.blacklist,
                                         ProcessChars(hwnd.process_name))
       IN  IF blacklisted
           THEN /\ poller' = [ BlacklistedSample(poller, hwnd)
                                 EXCEPT !.pc = "save_counter" ]
                /\ cycle' = [ cycle EXCEPT !.last_title = hwnd.window_title ]
           ELSE /\ poller' = [ poller EXCEPT !.pc = "switch" ]
                /\ UNCHANGED cycle
    /\ UNCHANGED << storeVars, db_sessions, counters, db_save_counter, store_lock, db_lock >>
    /\ CycleFrame

\* ACTIVITY_STORE.write() for switch_session.
CycleSwitch ==
    /\ poller.pc = "switch"
    /\ AcquireWrite("poller")
    /\ poller' = [ poller EXCEPT !.pc = "switch_store" ]
    /\ UNCHANGED << storeVars, db_sessions, counters, db_save_counter, db_lock, cycle >>
    /\ CycleFrame

\* switch_session: with a current session DATABASE is locked for
\* min_session_duration_secs and unlocked; the lock is released and the
\* window becomes the last sample.
CycleSwitchDone ==
    /\ poller.pc = "switch_store"
    /\ IsSome(current_session) => db_lock = None
    /\ LET hwnd == Unwrap(cycle.hwnd)
           st == switch_session(Store, hwnd, now, now, now)
       IN  /\ SetStore(st)
           /\ poller' = [ poller EXCEPT !.pc = "save_counter",
                                        !.last_hwnd = Some(hwnd.hwnd) ]
           /\ cycle' = [ Logged(<< "SwitchSession" >>) EXCEPT
                           !.last_title = hwnd.window_title ]
    /\ ReleaseWrite
    /\ UNCHANGED << db_sessions, counters, db_save_counter, db_lock >>
    /\ CycleFrame

\* db_save_counter += 1, and at DB_SAVE_INTERVAL the call of
\* save_pending_to_db.
CycleSaveCounter ==
    /\ poller.pc = "save_counter"
    /\ LET due == SaveDue(db_save_counter + 1)
       IN  /\ db_save_counter' = IF due THEN 0 ELSE db_save_counter + 1
           /\ poller' = [ poller EXCEPT !.pc = IF due THEN "save" ELSE "sleep" ]
           /\ cycle' = [ Logged(IF due THEN << "save" >> ELSE << >>) EXCEPT
                           !.completed = @ + 1,
                           !.saves = IF due THEN Append(@, cycle.completed + 1)
                                            ELSE @ ]
    /\ UNCHANGED << storeVars, db_sessions, counters, store_lock, db_lock >>
    /\ CycleFrame

\* save_pending_to_db: DATABASE.lock().
CycleSave ==
    /\ poller.pc = "save"
    /\ LockDatabase("poller")
    /\ poller' = [ poller EXCEPT !.pc = "save_db" ]
    /\ UNCHANGED << storeVars, db_sessions, counters, db_save_counter, store_lock, cycle >>
    /\ CycleFrame

\* ACTIVITY_STORE.write() under the guard of DATABASE: the queues are
\* drained, the write lock is released, the rows are inserted and the guard
\* is dropped.
CycleSaveDrain ==
    /\ poller.pc = "save_db"
    /\ WriteFree
    /\ LET r == save_pending_to_db(Store, db_sessions, key_manager, {})
       IN  /\ SetStore(r.store)
           /\ db_sessions' = r.sessions
    /\ UnlockDatabase
    /\ poller' = [ poller EXCEPT !.pc = "sleep" ]
    /\ UNCHANGED << counters, db_save_counter, store_lock, cycle >>
    /\ CycleFrame

\* thread::sleep(poll_interval): the next cycle begins.
CycleSleep ==
    /\ poller.pc = "sleep"
    /\ poller' = [ poller EXCEPT !.pc = "check_idle" ]
    /\ cycle' = [ cycle EXCEPT !.steps = << >>, !.hwnd = None ]
    /\ UNCHANGED << storeVars, db_sessions, counters, db_save_counter, store_lock, db_lock >>
    /\ CycleFrame

\* The steps of the polling thread.
CyclePoller ==
    \/ CycleCheckIdle
    \/ CycleCheckIdleDone
    \/ CycleLoadShutdown
    \/ CycleFlush
    \/ CycleFlushDone
    \/ CyclePollMedia
    \/ CycleForeground
    \/ CycleBlacklist
    \/ CycleSwitch
    \/ CycleSwitchDone
    \/ CycleSaveCounter
    \/ CycleSave
    \/ CycleSaveDrain
    \/ CycleSleep

\* The keyboard hook counts a key, called from the message loop.
CycleHook ==
    /\ main = "message_loop"
    /\ Events < MaxCycleEvents
    /\ counters'   = fetch_add(counters, "KEYSTROKE_COUNT")
    /\ increments' = [ increments EXCEPT !["KEYSTROKE_COUNT"] = @ + 1 ]
    /\ UNCHANGED << now, foreground, shutdown, main >>
    /\ CycleEnvFrame

\* Another window comes to the foreground, or none is left there.
CycleDesktop ==
    /\ \E f \in { None } \cup { Some(w) : w \in Windows } :
          f /= foreground /\ foreground' = f
    /\ UNCHANGED << now, counters, increments, shutdown, main >>
    /\ CycleEnvFrame

\* The clock, up to MaxCycleTime.
CycleClock ==
    /\ now < MaxCycleTime
    /\ now' = now + 1
    /\ UNCHANGED << counters, increments, foreground, shutdown, main >>
    /\ CycleEnvFrame

\* The message loop returns: shutdown.store(true, SeqCst), then
\* polling_handle.join().
CycleStop ==
    /\ main = "message_loop"
    /\ shutdown' = TRUE
    /\ main' = "join"
    /\ UNCHANGED << now, counters, increments, foreground >>
    /\ CycleEnvFrame

\* join returns once the polling thread has finished.
CycleJoin ==
    /\ main = "join"
    /\ Joined
    /\ main' = "finalize"
    /\ UNCHANGED << now, counters, increments, foreground, shutdown >>
    /\ CycleEnvFrame

\* The steps of the WebSocket connection: get_current_state.
CycleReader ==
    \/ WsRead
    \/ WsQuery
    \/ WsQueryDone
    \/ WsDone

CycleInit ==
    /\ StoreInit
    /\ db_sessions = << >>
    /\ key_manager = Some(SigningKey)
    /\ RingInit
    /\ AuxInit
    /\ glob = NoGlob
    /\ merkle = NoMerkle
    /\ write_op = NoWrite(FALSE)
    /\ cycle \in { [ NoCycle EXCEPT !.blacklist = b ] : b \in CycleBlacklists }

CycleNext ==
    \/ CyclePoller
    \/ CycleReader
    \/ CycleHook
    \/ CycleDesktop
    \/ CycleClock
    \/ CycleStop
    \/ CycleJoin

SpecCycle == CycleInit /\ [][CycleNext]_vars

\* The polling thread and the connection handler are scheduled, and a
\* thread waiting for a lock gets it when it is free again and again.
SpecStop ==
    /\ SpecCycle
    /\ SF_vars(CyclePoller)
    /\ SF_vars(CycleReader)
    /\ WF_vars(CycleJoin)

(* ------------------------- what a reader sees ------------------------- *)

\* A store operation in two steps under the write lock, from its start to
\* the point where it has moved the current session out of the store, and
\* from there to its end, beside a WebSocket connection that reads the
\* store under the read lock.

WriteOps == { "SwitchSession", "AddInput", "CheckAndSplitOnIdle",
              "FinalizeCurrentSession" }

\* self.current_session.take() is reached by the operation on store st at
\* instant t: always in switch_session and finalize_current_session, in
\* split_on_resume_from_idle and check_and_split_on_idle when the session
\* is not idle and the last input is older than the threshold.
Takes(name, st, t) ==
    \/ name \in { "SwitchSession", "FinalizeCurrentSession" }
    \/ /\ name \in { "AddInput", "CheckAndSplitOnIdle" }
       /\ IsSome(st.current_session)
       /\ t - st.last_input_time > AfkThreshold
       /\ ~ Unwrap(st.current_session).is_idle

\* The store the operation leaves, started on store st at instant t.
Written(name, w, st, t) ==
    CASE name = "SwitchSession"       -> switch_session(st, w, t, t, t)
      [] name = "AddInput"            -> add_input_counts(st, 1, 0, 0, t, t, t)
      [] name = "CheckAndSplitOnIdle" -> check_and_split_on_idle(st, t, t)
      [] name = "FinalizeCurrentSession" -> finalize_current_session(st, t, t)

\* What no step of this section changes.
ReaderFrame == UNCHANGED << now, op, persistVars, ringVars, pollerVars, media_op,
                            dailyVars, runVars, db_lock, thread_pc, queueVars,
                            pureVars, cycle >>

\* ACTIVITY_STORE.write() and the operation up to its take().
WriteBegin ==
    /\ write_op.name = "none"
    /\ Len(completed_sessions) < MaxHistory
    /\ AcquireWrite("poller")
    /\ \E name \in WriteOps : \E w \in Windows :
          /\ name /= "SwitchSession" => w = DailyWindow
          /\ write_op' = [ write_op EXCEPT !.name = name, !.window = Some(w),
                                           !.pre = Some(Store) ]
          /\ current_session' = IF Takes(name, Store, now)
                                THEN None ELSE current_session
    /\ UNCHANGED << completed_sessions, app_aggregates, last_input_time,
                    pending_sessions, current_media, media_history, pending_media >>
    /\ ReaderFrame

\* The rest of the operation, DATABASE locked and unlocked for the
\* configuration it reads, and the release of the write lock.
WriteEnd ==
    /\ write_op.name /= "none"
    /\ db_lock = None
    /\ LET st == Written(write_op.name, Unwrap(write_op.window),
                         Unwrap(write_op.pre), now)
       IN  /\ IsSome(st.current_session) =>
                 TotalCount(Unwrap(st.current_session)) <= MaxCount
           /\ SetStore(st)
    /\ ReleaseWrite
    /\ write_op' = NoWrite(IF write_op.name = "SwitchSession" THEN TRUE
                           ELSE IF write_op.name = "FinalizeCurrentSession" THEN FALSE
                           ELSE write_op.present)
    /\ ReaderFrame

\* The clock, up to MaxReaderTime.
ReaderClock == now < MaxReaderTime /\ Tick

ReaderNext ==
    \/ WriteBegin
    \/ WriteEnd
    \/ ReaderClock
    \/ WsRead
    \/ WsQuery
    \/ WsQueryDone
    \/ WsDone

SpecReader == Init /\ [][ReaderNext]_vars

(* ------------------------------ claims -------------------------------- *)

\* The counts of a session as a triple.
Counts(s) == << s.keystrokes, s.mouse_clicks, s.mouse_scrolls >>

\* The last step was AddInput with at least one nonzero count.
RealInput == op.name = "AddInput" /\ op.counts /= <<0, 0, 0>>

\* The gap the last step observed at its first clock read.
ObservedGap == op.at - op.pre_last_input

\* C2: every focus session enqueued for persistence with is_idle = true has
\* keystrokes = clicks = scrolls = 0.
C2_IdleSessionsCarryNoCounts ==
    \A i \in DOMAIN pending_sessions :
        pending_sessions[i].is_idle => Counts(pending_sessions[i]) = <<0, 0, 0>>

\* C3: every focus session that reaches the pending queue has end >= start
\* and a duration of at least MinSessionDuration.
C3_PendingMeetsMinDuration ==
    \A i \in DOMAIN pending_sessions :
        LET s == pending_sessions[i]
        IN  /\ IsSome(s.end_time)
            /\ Unwrap(s.end_time) >= s.start_time
            /\ duration_secs(s, 0) >= MinSessionDuration

\* C4: when AddInput with a nonzero count finds the idle slice current, the
\* idle slice is finalized and enqueued, and a new non-idle session for the
\* same window, started from zero counts, is current.
C4_InputOnIdleSliceStartsNewSession ==
    ( /\ RealInput
      /\ IsSome(op.pre_session)
      /\ Unwrap(op.pre_session).is_idle )
    => /\ IsSome(current_session)
       /\ ~Unwrap(current_session).is_idle
       /\ WindowOf(Unwrap(current_session)) = WindowOf(Unwrap(op.pre_session))
       /\ Counts(Unwrap(current_session)) = op.counts
       /\ \E i \in DOMAIN op.enqueued :
             /\ op.enqueued[i].is_idle
             /\ op.enqueued[i].start_time = Unwrap(op.pre_session).start_time

\* C10: a step adds the same sessions to the pending queue and to the
\* history and as many to the aggregates, each of them with a duration of at
\* least MinSessionDuration; a session finalized with such a duration is
\* added to all three.
C10_DropOrKeepInAllThree ==
    /\ op.enqueued = op.appended
    /\ op.aggregated = Len(op.enqueued)
    /\ \A i \in DOMAIN op.enqueued :
          duration_secs(op.enqueued[i], 0) >= MinSessionDuration
    /\ ( /\ op.name \in {"SwitchSession", "FinalizeCurrentSession"}
         /\ IsSome(op.pre_session)
         /\ op.at - Unwrap(op.pre_session).start_time >= MinSessionDuration )
       => ( Len(op.enqueued) = 1 /\ op.aggregated = 1 )

\* The last step started from a current session, here called the old one.
HadSession == IsSome(op.pre_session)

OldSession == Unwrap(op.pre_session)

\* The last step was CheckAndSplitOnIdle observing a gap above the threshold
\* on a session not flagged idle that had recorded input.
IdleTransition ==
    /\ op.name = "CheckAndSplitOnIdle"
    /\ HadSession
    /\ ~OldSession.is_idle
    /\ has_activity(OldSession)
    /\ ObservedGap > AfkThreshold

\* What the idle transition leaves when the slices meet at instant b: the
\* active slice [start, b] with all counts went through the finalization
\* policy, and the idle slice starting at b is the current session.
IdleTransitionAt(b) ==
    LET active == [ OldSession EXCEPT !.end_time = Some(b), !.is_idle = FALSE ]
    IN  /\ op.enqueued = IF duration_secs(active, 0) >= MinSessionDuration
                         THEN << active >> ELSE << >>
        /\ op.appended = op.enqueued
        /\ op.aggregated = Len(op.enqueued)
        /\ IsSome(current_session)
        /\ LET idle == Unwrap(current_session)
           IN  /\ WindowOf(idle) = WindowOf(OldSession)
               /\ idle.start_time = b
               /\ Counts(idle) = <<0, 0, 0>>
               /\ idle.is_idle
               /\ IsSome(idle.end_time)

\* C8 as stated: on the idle transition the slices meet at last-input.
C8_IdleTransitionAtLastInput ==
    IdleTransition => IdleTransitionAt(op.pre_last_input)

\* C8 amended: on the idle transition the active slice with all its counts
\* goes through the finalization policy and the idle slice (same window, zero
\* counts, is_idle) becomes current, no new active session being created;
\* the slices meet at the later of last-input and the session's start.
C8_IdleTransitionAtEffectiveLastInput ==
    IdleTransition =>
        IdleTransitionAt(Max(op.pre_last_input, OldSession.start_time))

\* An idle transition whose active slice was long enough to be kept.
C8_Witness ==
    /\ IdleTransition
    /\ Len(op.enqueued) = 1
    /\ Unwrap(current_session).is_idle

\* The last step was AddInput with a nonzero count after a gap above the
\* threshold on a session not flagged idle.
ResumeSplit ==
    /\ RealInput
    /\ HadSession
    /\ ~OldSession.is_idle
    /\ ObservedGap > AfkThreshold

\* C9: on such an AddInput the split runs before the counts are accumulated:
\* the triggering counts are on the new active current session only; the
\* enqueued slices are the active slice with the old counts followed by the
\* idle slice with none, or the idle slice alone if the old session had no
\* input.
C9_ResumeSplitBeforeAccumulate ==
    ResumeSplit =>
        /\ IsSome(current_session)
        /\ LET fresh == Unwrap(current_session)
           IN  /\ WindowOf(fresh) = WindowOf(OldSession)
               /\ ~fresh.is_idle
               /\ fresh.end_time = None
               /\ fresh.start_time >= op.at
               /\ Counts(fresh) = op.counts
        /\ \A i \in DOMAIN op.enqueued :
              LET e == op.enqueued[i]
              IN  /\ WindowOf(e) = WindowOf(OldSession)
                  /\ IF e.is_idle
                     THEN Counts(e) = <<0, 0, 0>>
                     ELSE has_activity(OldSession) /\ Counts(e) = Counts(OldSession)
        /\ Len(op.enqueued) <= 2
        /\ Len(op.enqueued) = 2 =>
              ~op.enqueued[1].is_idle /\ op.enqueued[2].is_idle
        /\ ~has_activity(OldSession) => Len(op.enqueued) <= 1
        /\ op.at - Max(op.pre_last_input, OldSession.start_time)
                >= MinSessionDuration
             => \E i \in DOMAIN op.enqueued : op.enqueued[i].is_idle

\* A resume split that enqueued both the active and the idle slice.
C9_Witness ==
    /\ ResumeSplit
    /\ has_activity(OldSession)
    /\ Len(op.enqueued) = 2

\* The last step was AddInput with a nonzero count resuming from idle: after
\* a gap above the threshold, or on the idle slice left by an idle transition.
Resume ==
    /\ RealInput
    /\ HadSession
    /\ ( OldSession.is_idle \/ ObservedGap > AfkThreshold )

\* C7: a split on idle yields the active slice with all counts, the idle
\* slice with none and, on resume, a new active session, with
\* active.end = idle.start = last-input and idle.end = new-active.start.
C7_SplitSlicesContiguous ==
    /\ ( IdleTransition \/ (ResumeSplit /\ has_activity(OldSession)) ) =>
          \A i \in DOMAIN op.enqueued :
             LET e == op.enqueued[i]
             IN  IF e.is_idle
                 THEN /\ Counts(e) = <<0, 0, 0>>
                      /\ e.start_time = op.pre_last_input
                 ELSE /\ Counts(e) = Counts(OldSession)
                      /\ e.start_time = OldSession.start_time
                      /\ e.end_time = Some(op.pre_last_input)
                      /\ Unwrap(e.end_time) >= e.start_time
    /\ Resume =>
          /\ IsSome(current_session)
          /\ ~Unwrap(current_session).is_idle
          /\ Unwrap(current_session).end_time = None
          /\ \A i \in DOMAIN op.enqueued :
                op.enqueued[i].is_idle =>
                   op.enqueued[i].end_time
                      = Some(Unwrap(current_session).start_time)


\* C1: with a signing key, every row of the log after the first carries as
\* prev_hash the hash of the row inserted just before it, and the first row
\* of the log has prev_hash null.
C1_ChainLinksAdjacentRows ==
    IsSome(key_manager) =>
        \A i \in DOMAIN db_sessions :
            db_sessions[i].prev_hash =
                IF i = 1 THEN None ELSE db_sessions[i - 1].hash


\* C5: for each counter, the increments performed so far equal the sum of
\* the values its flushes returned plus its current value, and the counter
\* holds exactly the increments since its last flush (a flush returned what
\* had accumulated and left zero).
C5_CounterRingConservation ==
    \A c \in Counters :
        /\ increments[c] = flushed[c] + counters[c]
        /\ counters[c] = since_flush[c]

\* A counter that was incremented, flushed with a nonzero value and
\* incremented again.
C5_Witness ==
    \E c \in Counters :
        /\ flushed[c] > 0
        /\ counters[c] > 0
        /\ increments[c] = MaxEvents

\* C6: whatever the lock contention, every counted input is in the counter
\* ring, in the locals of a flush under way, or was credited to the store.
C6_DeferredFlushLosesNothing ==
    \A c \in Counters :
        increments[c] = counters[c] + LocalOf(c) + credited[c]


\* The last step was SwitchSession.
Switched == op.name = "SwitchSession"

\* C11: SwitchSession, whatever the current session was, puts the previous
\* current session with its counts and end = the instant of the call through
\* the finalization policy, and leaves a current session with the given
\* window, no counts, not idle, no end, started at the instant of the call,
\* and last-input at the instant of the call.  The instants of the call are
\* its clock reads, in program order the end, the start and last-input, at
\* most the duration of the call (one second) apart.
C11_SwitchSessionFinalizesAndStarts ==
    Switched =>
        /\ IsSome(current_session)
        /\ LET s == Unwrap(current_session)
           IN  /\ WindowOf(s) = Unwrap(op.window)
               /\ Counts(s) = <<0, 0, 0>>
               /\ ~s.is_idle
               /\ s.end_time = None
               /\ op.at <= s.start_time
               /\ s.start_time <= last_input_time
        /\ last_input_time - op.at <= 1
        /\ op.appended = op.enqueued
        /\ op.aggregated = Len(op.enqueued)
        /\ IF HadSession
           THEN LET old == [ OldSession EXCEPT !.end_time = Some(op.at) ]
                IN  op.enqueued =
                        IF duration_secs(old, 0) >= MinSessionDuration
                        THEN << old >> ELSE << >>
           ELSE op.enqueued = << >>

\* A SwitchSession that found an idle current session and kept it.
C11_Witness ==
    /\ Switched
    /\ HadSession
    /\ OldSession.is_idle
    /\ Len(op.enqueued) = 1


\* The last media step was UpdateMedia; its info and the media session that
\* was current before it.
MediaUpdated == media_op.name = "UpdateMedia"

Info == Unwrap(media_op.info)

HadMedia == IsSome(media_op.pre_media)

OldMedia == Unwrap(media_op.pre_media)

\* The info has the (title, artist) of the media session that was current.
SameIdentity ==
    /\ OldMedia.media_info.title = Info.title
    /\ OldMedia.media_info.artist = Info.artist

\* C12: UpdateMedia with a playing info whose (title, artist) differs from
\* the current media session finalizes that session, enqueues it in the
\* pending media queue, appends it to the media history and makes a new
\* media session for the info current.
C12_MediaChangeEnqueuesOld ==
    ( MediaUpdated /\ is_playing(Info) /\ HadMedia /\ ~SameIdentity ) =>
        /\ Len(media_op.enqueued) = 1
        /\ media_op.enqueued[1].media_info = OldMedia.media_info
        /\ media_op.enqueued[1].start_time = OldMedia.start_time
        /\ IsSome(media_op.enqueued[1].end_time)
        /\ media_op.appended = media_op.enqueued
        /\ IsSome(current_media)
        /\ Unwrap(current_media).media_info = Info
        /\ Unwrap(current_media).end_time = None

\* C13: UpdateMedia with a Playing info that has the (title, artist) of the
\* current media session changes nothing: current media, media history and
\* pending media are as before, whatever the album and source app.
C13_SameMediaChangesNothing ==
    ( MediaUpdated /\ Info.playback_status = "Playing"
                   /\ HadMedia /\ SameIdentity ) =>
        /\ current_media = media_op.pre_media
        /\ media_op.enqueued = << >>
        /\ media_op.appended = << >>

\* An UpdateMedia with the current (title, artist) and another album and
\* source app.
C13_Witness ==
    /\ MediaUpdated
    /\ Info.playback_status = "Playing"
    /\ HadMedia
    /\ SameIdentity
    /\ Info.album /= OldMedia.media_info.album
    /\ Info.source_app_id /= OldMedia.media_info.source_app_id

\* C14 as stated: after UpdateMedia(info) a current media session exists
\* iff the status of info is Playing, and then has its (title, artist).
C14_MediaExistsIffPlaying ==
    MediaUpdated =>
        /\ IsSome(current_media) <=> Info.playback_status = "Playing"
        /\ IsSome(current_media) =>
              /\ Unwrap(current_media).media_info.title = Info.title
              /\ Unwrap(current_media).media_info.artist = Info.artist

\* C14 amended: after UpdateMedia(info) a current media session exists iff
\* the status of info is Playing and its title is not empty, and then has
\* the (title, artist) of info.
C14_MediaExistsIffPlayingWithTitle ==
    MediaUpdated =>
        /\ IsSome(current_media) <=>
              ( Info.playback_status = "Playing" /\ Info.title /= "" )
        /\ IsSome(current_media) =>
              /\ Unwrap(current_media).media_info.title = Info.title
              /\ Unwrap(current_media).media_info.artist = Info.artist

\* An UpdateMedia whose info was Playing with an empty title while a media
\* session was current.
C14_Witness ==
    /\ MediaUpdated
    /\ Info.playback_status = "Playing"
    /\ Info.title = ""
    /\ HadMedia

\* C15: every row of the log that carries a hash carries the hash of its own
\* process, title, start, end, keystrokes, clicks and scrolls columns and of
\* its own prev_hash column.
C15_StoredHashIsHashOfRow ==
    \A i \in DOMAIN db_sessions :
        LET row == db_sessions[i]
        IN  IsSome(row.hash) =>
                Unwrap(row.hash) =
                    hash_session_data(row.process_name, row.window_title,
                                      row.start_time, row.end_time,
                                      row.keystrokes, row.clicks, row.scrolls,
                                      row.prev_hash)

\* A hashed row with input counts that is chained to the row before it.
C15_Witness ==
    \E i \in DOMAIN db_sessions :
        /\ IsSome(db_sessions[i].hash)
        /\ IsSome(db_sessions[i].prev_hash)
        /\ db_sessions[i].keystrokes + db_sessions[i].clicks
              + db_sessions[i].scrolls > 0


\* The calls of compute_daily_integrity the last persistence step made.
ComputeCalls == { daily_op.calls[i] : i \in DOMAIN daily_op.calls }

\* The records of a table for a date, and those for the other dates.
RecordsOf(tbl, date) == { i \in DOMAIN tbl : tbl[i].date = date }

OtherRecords(tbl, date) == { tbl[i] : i \in DOMAIN tbl \ RecordsOf(tbl, date) }

\* The record the call is to write, given the hashes of its date.
ExpectedRecord(call, hashes) ==
    LET earlier == { i \in DOMAIN call.pre : call.pre[i].date < call.date }
        prior   == IF earlier = {} THEN None
                   ELSE LET i == CHOOSE j \in earlier :
                                \A k \in earlier :
                                    call.pre[k].date <= call.pre[j].date
                        IN  Some(call.pre[i].merkle_root)
        root    == Unwrap(build_merkle_root(hashes))
    IN  [ date          |-> call.date,
          merkle_root   |-> root,
          prev_day_root |-> prior,
          session_count |-> Len(hashes),
          signature     |->
              sign_hash(<< root,
                           IF IsSome(prior) THEN Unwrap(prior) ELSE Genesis,
                           call.date >>, SigningKey) ]

\* A call wrote the record of its date, and nothing with no hashes.
CallWrites(call) ==
    LET hashes == get_session_hashes_for_date(db_sessions, call.date)
    IN  IF Len(hashes) = 0
        THEN call.post = call.pre
        ELSE /\ Cardinality(RecordsOf(call.post, call.date)) = 1
             /\ \A i \in RecordsOf(call.post, call.date) :
                    call.post[i] = ExpectedRecord(call, hashes)
             /\ OtherRecords(call.post, call.date)
                  = OtherRecords(call.pre, call.date)

\* C16 as stated: every compute_daily_integrity(D) call with N >= 1 hashes
\* on date D leaves one record for D with the Merkle root of the hashes in
\* start-time order, session_count N, the root of the latest earlier record
\* as prev_day_root and the signature over root|prior-or-"genesis"|D, and
\* with N = 0 it leaves the table as it was.
C16_ComputeWritesRecord ==
    \A call \in ComputeCalls : CallWrites(call)

\* C16, amended: the same for every call made while a signing key is
\* available.
C16_ComputeWritesRecordWithKey ==
    IsSome(daily_op.key) => \A call \in ComputeCalls : CallWrites(call)

\* A call that wrote a record over two or more hashes chained to the record
\* of an earlier date.
C16_Witness ==
    \E call \in ComputeCalls :
        \E i \in RecordsOf(call.post, call.date) :
            /\ call.post /= call.pre
            /\ call.post[i].session_count >= 2
            /\ IsSome(call.post[i].prev_day_root)

\* The dates that have a session in the log, and those that have a hashed
\* one.
SessionDates == { DATE(db_sessions[i].start_time) : i \in DOMAIN db_sessions }

HashedDates ==
    { DATE(db_sessions[i].start_time) :
        i \in { j \in DOMAIN db_sessions : IsSome(db_sessions[j].hash) } }

\* The startup recovery of a run with a key was the last persistence step,
\* and the run before it had a key and ended in a shutdown.
RecoveredAfterShutdown ==
    /\ daily_op.name = "check_and_compute_missing_integrity"
    /\ daily_op.after_shutdown
    /\ IsSome(daily_op.key)

\* C17: the daily_integrity table never holds two records for one date nor
\* a record for a date without sessions, and after a shutdown and a startup
\* recovery with a signing key every date with a hashed session has exactly
\* one record.
C17_OneRecordPerSessionDate ==
    /\ \A i, j \in DOMAIN daily_integrity :
          daily_integrity[i].date = daily_integrity[j].date => i = j
    /\ \A i \in DOMAIN daily_integrity :
          daily_integrity[i].date \in SessionDates
    /\ RecoveredAfterShutdown =>
          \A d \in HashedDates :
              Cardinality(RecordsOf(daily_integrity, d)) = 1

\* After a shutdown, a startup recovery that wrote the record of an earlier
\* date next to the record the shutdown had written.
C17_Witness ==
    /\ RecoveredAfterShutdown
    /\ Cardinality(HashedDates) >= 2
    /\ \E call \in ComputeCalls :
          /\ call.post /= call.pre
          /\ call.pre /= << >>

\* The sessions of a batch whose insert did not fail, in order.
Inserted(batch, failing) ==
    LET RECURSIVE From(_)
        From(i) == IF i > Len(batch) THEN << >>
                   ELSE IF i \in failing THEN From(i + 1)
                   ELSE << batch[i] >> \o From(i + 1)
    IN  From(1)

\* A row holds the data of a session and no integrity field.
PlainRowOf(row, session) ==
    /\ row.process_name = session.process_name
    /\ row.window_title = session.window_title
    /\ row.start_time = to_rfc3339(session.start_time)
    /\ row.end_time = to_rfc3339(Unwrap(session.end_time))
    /\ << row.keystrokes, row.clicks, row.scrolls >> = Counts(session)
    /\ row.is_idle = session.is_idle
    /\ row.hash = None /\ row.signature = None /\ row.prev_hash = None

\* C18: a batch drained without a signing key appends one row per session
\* whose insert does not fail, with hash, signature and prev_hash null, and
\* no step without a key writes a daily record; in every row of the log
\* hash and signature are both null or both non-null, and prev_hash is
\* non-null only with a non-null hash.
C18_WithoutKeyPlainRowsNoRecord ==
    /\ ~IsSome(daily_op.key) =>
          /\ LET sessions == Inserted(daily_op.batch, daily_op.failing)
             IN  /\ Len(daily_op.rows) = Len(sessions)
                 /\ \A i \in DOMAIN sessions :
                        PlainRowOf(daily_op.rows[i], sessions[i])
          /\ \A call \in ComputeCalls : call.post = call.pre
    /\ \A i \in DOMAIN db_sessions :
          /\ IsSome(db_sessions[i].hash) <=> IsSome(db_sessions[i].signature)
          /\ IsSome(db_sessions[i].prev_hash) => IsSome(db_sessions[i].hash)

\* A shutdown without a key that appended a row to a log that holds hashed
\* rows of the same date from a run with a key.
C18_Witness ==
    /\ daily_op.name = "finalize_and_save"
    /\ ~IsSome(daily_op.key)
    /\ Len(daily_op.rows) >= 1
    /\ \E call \in ComputeCalls : call.date \in HashedDates

\* C19: the main thread passes the stop flag, the join, the finalize, the
\* drain-and-append and the daily integrity in this order: past the message
\* loop the flag is set; from the finalize on the polling thread has
\* finished, and it neither wrote to the store nor saved after the
\* finalize; the finalized session is in the batch drained, the rows of the
\* batch are on the log and the daily record is computed over that log.
C19_ShutdownOrder ==
    /\ main /= "message_loop" => shutdown
    /\ main \in { "finalize", "save", "integrity", "done" } => poller.pc = "done"
    /\ ~late
    /\ main \in { "integrity", "done" } =>
          /\ IsSome(final_session) =>
                \E i \in DOMAIN daily_op.batch :
                    daily_op.batch[i] = Unwrap(final_session)
          /\ Len(daily_op.rows) = Len(daily_op.batch)
          /\ daily_op.rows
               = SubSeq(db_sessions, Len(db_sessions) - Len(daily_op.rows) + 1,
                        Len(db_sessions))
    /\ main = "done" => \A call \in ComputeCalls : CallWrites(call)

\* A shutdown that has finished: the polling thread credited input in its
\* final flush, the finalized session carries it, and the daily record
\* counts its row.
C19_Witness ==
    /\ main = "done"
    /\ IsSome(final_session)
    /\ TotalCount(Unwrap(final_session)) > 0
    /\ \E call \in ComputeCalls :
          \E i \in RecordsOf(call.post, call.date) :
              /\ call.post /= call.pre
              /\ call.post[i].session_count = Len(db_sessions)
              /\ DATE(db_sessions[Len(db_sessions)].start_time) = call.date

\* C20: input that occurs after the foreground window has changed and
\* before the poller's next flush is never credited to a session of another
\* window than the one in front when it occurred.
C20_GapInputCreditedToNewWindow == gap_credit.old = 0

\* C21: no thread holds the mutex of DATABASE (under which it queries or
\* inserts) while it holds the lock of ACTIVITY_STORE.
C21_NoDatabaseUnderStoreLock ==
    \A t \in Threads : ~ ( HoldsStore(t) /\ HoldsDatabase(t) )

\* C22: in the running system the two histories do not stay above
\* MaxSessions: when the polling thread ends a cycle the store is as
\* prune_old_sessions leaves it, each history holding at most its MaxSessions
\* most recent entries.
C22_HistoriesWithinMaxSessions ==
    poller.pc = "sleep" => Store = prune_old_sessions(Store, MaxSessions)

\* The next state's current session is the current session of this state:
\* the same window, begun at the same instant.
SameCurrent ==
    /\ IsSome(current_session)
    /\ IsSome(current_session')
    /\ WindowOf(Unwrap(current_session')) = WindowOf(Unwrap(current_session))
    /\ Unwrap(current_session').start_time = Unwrap(current_session).start_time

\* C23: once the end instant of a focus session is set, its keystroke,
\* click and scroll counts do not change: no step changes the counts of a
\* current session whose end is set, nor a session of the history.
C23_CountsFrozenOnceEnded ==
    [][ /\ ( SameCurrent /\ IsSome(Unwrap(current_session).end_time) ) =>
              Counts(Unwrap(current_session')) = Counts(Unwrap(current_session))
        /\ \A i \in 1 .. Len(completed_sessions) :
              i <= Len(completed_sessions') =>
                 Counts(completed_sessions'[i]) = Counts(completed_sessions[i])
      ]_vars

\* A row of the sessions table holds the data of a session.
RowCarries(row, session) ==
    /\ row.process_name = session.process_name
    /\ row.window_title = session.window_title
    /\ row.start_time = to_rfc3339(session.start_time)
    /\ row.end_time = to_rfc3339(Unwrap(session.end_time))
    /\ << row.keystrokes, row.clicks, row.scrolls >> = Counts(session)
    /\ row.is_idle = session.is_idle

\* A row of the media table holds the data of a media session.
MediaRowCarries(row, m) ==
    /\ << row.title, row.artist, row.album, row.source_app >>
          = << m.media_info.title, m.media_info.artist, m.media_info.album,
               m.media_info.source_app_id >>
    /\ row.start_time = to_rfc3339(m.start_time)
    /\ row.end_time = to_rfc3339(Unwrap(m.end_time))

\* C24: what was pushed to a pending queue is, in push order, what the
\* drains returned followed by what is still queued, so each pushed session
\* is returned by exactly one drain; a drain leaves both queues empty; and
\* as long as no insert failed the rows of each table are the drained
\* sessions, one row each, in that order.
C24_EachEnqueuedDrainedOnce ==
    /\ enqueued.sessions = drained.sessions \o pending_sessions
    /\ enqueued.media = drained.media \o pending_media
    /\ drain_op.left = << >>
    /\ ~ drained.failed =>
          /\ Len(db_sessions) = Len(drained.sessions)
          /\ \A i \in 1 .. Len(db_sessions) :
                RowCarries(db_sessions[i], drained.sessions[i])
          /\ Len(db_media) = Len(drained.media)
          /\ \A i \in 1 .. Len(db_media) :
                MediaRowCarries(db_media[i], drained.media[i])

\* Two drains returned one focus session each, a media session was drained
\* too, no insert failed, and another media session is queued since.
C24_Witness ==
    /\ Len(drained.sessions) = 2
    /\ Len(drain_op.sessions) = 1
    /\ Len(drained.media) = 1
    /\ ~ drained.failed
    /\ Len(db_sessions) = 2 /\ Len(db_media) = 1
    /\ pending_media /= << >>

\* C30: a failing insert does not abort the batch. After a drain-and-append
\* each table is what it was before, followed by one row for every drained
\* item whose insert did not fail, in drain order: the items after a failure
\* were attempted and the rows before it are kept.
C30_FailureDoesNotAbortBatch ==
    LET sessions == Inserted(drain_op.sessions, drain_op.failing_sessions)
        media    == Inserted(drain_op.media, drain_op.failing_media)
        before   == Len(drain_op.pre_sessions)
        mbefore  == Len(drain_op.pre_media)
    IN  /\ Len(db_sessions) = before + Len(sessions)
        /\ SubSeq(db_sessions, 1, before) = drain_op.pre_sessions
        /\ \A i \in 1 .. Len(sessions) :
              RowCarries(db_sessions[before + i], sessions[i])
        /\ Len(db_media) = mbefore + Len(media)
        /\ SubSeq(db_media, 1, mbefore) = drain_op.pre_media
        /\ \A i \in 1 .. Len(media) :
              MediaRowCarries(db_media[mbefore + i], media[i])

\* A batch of two focus sessions and two media sessions in which the first
\* insert of each kind failed and the second added its row, after an
\* earlier batch had added a row.
C30_Witness ==
    /\ Len(drain_op.sessions) = 2 /\ drain_op.failing_sessions = {1}
    /\ Len(db_sessions) = Len(drain_op.pre_sessions) + 1
    /\ Len(drain_op.media) = 2 /\ drain_op.failing_media = {1}
    /\ Len(db_media) = Len(drain_op.pre_media) + 1

\* C29: finalize_current_session ends the current focus session and the
\* current media session at the instants it reads the clock (the media
\* session at its second read, the same second or the next), pushes each to
\* its pending queue and leaves the store without a current focus or media
\* session; the store stays so until a switch_session or an update_media,
\* and a finalize repeated before one pushes nothing.
C29_FinalizeEnqueuesBothOnce ==
    /\ finalize_state.done => current_session = None /\ current_media = None
    /\ finalize_state.last =>
          /\ finalize_state.sessions =
                IF IsSome(finalize_state.pre_session)
                THEN << [ Unwrap(finalize_state.pre_session)
                            EXCEPT !.end_time = Some(finalize_state.at) ] >>
                ELSE << >>
          /\ IF IsSome(finalize_state.pre_media)
             THEN \E end \in Later(finalize_state.at) :
                     finalize_state.media =
                        << [ Unwrap(finalize_state.pre_media)
                               EXCEPT !.end_time = Some(end) ] >>
             ELSE finalize_state.media = << >>
          /\ finalize_state.again =>
                finalize_state.sessions = << >> /\ finalize_state.media = << >>

\* A finalize that found a focus session and a media session and pushed
\* both.
C29_Witness ==
    /\ finalize_state.last
    /\ IsSome(finalize_state.pre_session) /\ IsSome(finalize_state.pre_media)
    /\ Len(finalize_state.sessions) = 1 /\ Len(finalize_state.media) = 1
    /\ pending_sessions /= << >> /\ pending_media /= << >>
    /\ finalize_state.sessions[1] = pending_sessions[Len(pending_sessions)]
    /\ finalize_state.media[1] = pending_media[Len(pending_media)]

\* Two characters are the same letter, whatever their case.
SameLetter(x, y) == x = y \/ {x, y} = {"a", "A"} \/ {x, y} = {"b", "B"}

\* The lengths of the prefixes of the text that the first i characters of
\* the pattern match: '*' stands for zero or more characters, '?' for exactly
\* one, any other character for itself (for its letter when fold is set).
RECURSIVE GlobReach(_, _, _, _)
GlobReach(pattern, text, i, fold) ==
    IF i = 0 THEN { 0 }
    ELSE LET before == GlobReach(pattern, text, i - 1, fold)
             pc == pattern[i]
         IN  IF pc = "*"
             THEN { k \in 0 .. Len(text) : \E r \in before : r <= k }
             ELSE { r + 1 : r \in { q \in before :
                                      /\ q < Len(text)
                                      /\ \/ pc = "?"
                                         \/ pc = text[q + 1]
                                         \/ fold /\ SameLetter(pc, text[q + 1]) } }

\* The whole text matches the pattern.
GlobMatches(pattern, text, fold) ==
    Len(text) \in GlobReach(pattern, text, Len(pattern), fold)

\* C25: pattern_matches returns true exactly when the whole text matches
\* the pattern, with '*' for zero or more characters and '?' for exactly one;
\* is_blacklisted returns true exactly when some pattern of the blacklist
\* matches the process name with the case of letters ignored.
C25_GlobMatcherCorrect ==
    IsSome(glob.result) =>
       /\ glob.kind = "pattern_matches" =>
             Unwrap(glob.result) = GlobMatches(glob.pattern, glob.text, FALSE)
       /\ glob.kind = "is_blacklisted" =>
             Unwrap(glob.result) =
                ( /\ IsSome(glob.blacklist)
                  /\ \E i \in 1 .. Len(Unwrap(glob.blacklist)) :
                        GlobMatches(Unwrap(glob.blacklist)[i],
                                    glob.process_name, TRUE) )

\* Two stars in a row and a question mark matched against a text.
C25_Witness ==
    /\ glob.kind = "pattern_matches"
    /\ glob.pattern = << "*", "*", "?", "b" >>
    /\ glob.text = << "a", "a", "b" >>
    /\ glob.result = Some(TRUE)

\* Adjacent elements paired left to right, each pair replaced by the hash of
\* left||right, an odd last element paired with itself.
RECURSIVE PairedUp(_)
PairedUp(xs) ==
    IF xs = << >> THEN << >>
    ELSE IF Len(xs) = 1 THEN << hash_pair(xs[1], xs[1]) >>
    ELSE << hash_pair(xs[1], xs[2]) >> \o PairedUp(Tail(Tail(xs)))

\* The pairing repeated until one element remains.
RECURSIVE PairedDown(_)
PairedDown(xs) == IF Len(xs) = 1 THEN xs[1] ELSE PairedDown(PairedUp(xs))

\* C26: the Merkle root of the empty list is absent, that of a singleton is
\* its hash, that of a longer list is what repeated pairing leaves; and a
\* non-empty list verifies against its own root.
C26_MerkleRootByPairing ==
    /\ merkle.built =>
          merkle.root = IF merkle.hashes = << >> THEN None
                        ELSE IF Len(merkle.hashes) = 1 THEN Some(merkle.hashes[1])
                        ELSE Some(PairedDown(merkle.hashes))
    /\ IsSome(merkle.verified) => Unwrap(merkle.verified)

\* A list of five hashes, odd at two levels, built and verified.
C26_Witness ==
    /\ Len(merkle.hashes) = 5
    /\ merkle.hashes[1] /= merkle.hashes[2]
    /\ merkle.hashes[5] /= merkle.hashes[1]
    /\ merkle.root =
          Some(hash_pair(hash_pair(hash_pair(merkle.hashes[1], merkle.hashes[2]),
                                   hash_pair(merkle.hashes[3], merkle.hashes[4])),
                         hash_pair(hash_pair(merkle.hashes[5], merkle.hashes[5]),
                                   hash_pair(merkle.hashes[5], merkle.hashes[5]))))
    /\ merkle.verified = Some(TRUE)

\* C27: UpdateMedia with an info that is not Playing ends the current
\* media session, if there is one, pushes it to the pending media queue and
\* to the media history and leaves no current media; without a current
\* media session it changes nothing.
C27_StoppedMediaIsEnqueued ==
    ( MediaUpdated /\ Info.playback_status /= "Playing" ) =>
        /\ current_media = None
        /\ media_op.appended = media_op.enqueued
        /\ IF HadMedia
           THEN /\ Len(media_op.enqueued) = 1
                /\ IsSome(media_op.enqueued[1].end_time)
                /\ Unwrap(media_op.enqueued[1].end_time) >= OldMedia.start_time
                /\ Unwrap(media_op.enqueued[1].end_time) <= now
                /\ media_op.enqueued[1] =
                      [ OldMedia EXCEPT !.end_time = media_op.enqueued[1].end_time ]
           ELSE media_op.enqueued = << >>

\* A paused info ended a media session that had been playing for a while.
C27_Witness ==
    /\ MediaUpdated /\ Info.playback_status = "Paused"
    /\ HadMedia
    /\ Len(media_op.enqueued) = 1
    /\ Unwrap(media_op.enqueued[1].end_time) > OldMedia.start_time
    /\ current_media = None
    /\ pending_media /= << >>
    /\ pending_media[Len(pending_media)] = media_op.enqueued[1]

\* The last step was CheckAndSplitOnIdle.
IdleChecked == op.name = "CheckAndSplitOnIdle"

\* It pushed nothing, aggregated nothing and left the last input alone.
IdleCheckKeptQueues ==
    /\ op.enqueued = << >>
    /\ op.appended = << >>
    /\ op.aggregated = 0
    /\ last_input_time = op.pre_last_input

\* C28: CheckAndSplitOnIdle changes nothing without a current session or
\* with a gap of at most AfkThreshold; on a current session already flagged
\* idle, with a gap above the threshold, it sets the end of that session to
\* the instant it reads (the same second as the gap's read or the next) and
\* leaves its start, counts and flag, the pending queue, the history, the
\* aggregates and the last input as they were.
C28_IdleCheckFrame ==
    IdleChecked =>
       /\ ( ~ HadSession \/ ObservedGap <= AfkThreshold ) =>
             /\ current_session = op.pre_session
             /\ IdleCheckKeptQueues
       /\ ( HadSession /\ ObservedGap > AfkThreshold /\ OldSession.is_idle ) =>
             /\ \E end \in Later(op.at) :
                   current_session = Some([ OldSession EXCEPT !.end_time = Some(end) ])
             /\ IdleCheckKeptQueues

\* A session already idle and ended at an earlier instant had its end
\* advanced by the check, with a session waiting in the pending queue.
C28_Witness ==
    /\ IdleChecked
    /\ HadSession /\ ObservedGap > AfkThreshold
    /\ OldSession.is_idle
    /\ IsSome(OldSession.end_time)
    /\ IsSome(current_session)
    /\ Unwrap(Unwrap(current_session).end_time) > Unwrap(OldSession.end_time)
    /\ Unwrap(current_session).start_time = OldSession.start_time
    /\ pending_sessions /= << >>


\* The place of a step in a poll cycle.
StepRank(name) ==
    CASE name = "CheckAndSplitOnIdle" -> 1
      [] name = "shutdown"            -> 2
      [] name = "flush"               -> 3
      [] name = "AddInput"            -> 4
      [] name = "media"               -> 5
      [] name = "UpdateMedia"         -> 6
      [] name = "foreground"          -> 7
      [] name = "SwitchSession"       -> 8
      [] name = "save"                -> 9

\* The steps every cycle takes, up to the rank given.
StepsDue(rank) ==
    { name \in { "CheckAndSplitOnIdle", "shutdown", "flush", "media", "foreground" } :
        StepRank(name) < rank }

StepsTaken == { cycle.steps[i] : i \in 1 .. Len(cycle.steps) }

\* C31: the steps of a poll cycle come in the order CheckAndSplitOnIdle,
\* shutdown check, counter flush (with AddInput), media sample (with
\* UpdateMedia), foreground sample (with SwitchSession), none left out
\* before a later one; a cycle that reaches its sleep took them all; the
\* saves were invoked at the completed cycles DB_SAVE_INTERVAL, twice
\* DB_SAVE_INTERVAL, ... and at no other; the cycle that saw the shutdown
\* flag sampled nothing and saved nothing.
C31_CycleOrderAndPeriodicSave ==
    /\ \A i, j \in 1 .. Len(cycle.steps) :
          i < j => StepRank(cycle.steps[i]) < StepRank(cycle.steps[j])
    /\ \A name \in StepsTaken : StepsDue(StepRank(name)) \subseteq StepsTaken
    /\ poller.pc = "sleep" => StepsDue(9) \subseteq StepsTaken
    /\ cycle.saves = [ k \in 1 .. ( cycle.completed \div DB_SAVE_INTERVAL )
                         |-> k * DB_SAVE_INTERVAL ]
    /\ cycle.observed =>
          StepsTaken \subseteq { "CheckAndSplitOnIdle", "shutdown", "flush", "AddInput" }

\* A cycle took every step, the optional ones too, and ended with a save
\* that was not the first.
C31_Witness ==
    /\ poller.pc = "sleep"
    /\ cycle.steps = << "CheckAndSplitOnIdle", "shutdown", "flush", "AddInput",
                        "media", "UpdateMedia", "foreground", "SwitchSession",
                        "save" >>
    /\ Len(cycle.saves) > 1

\* The thread is at a DATABASE.lock() it has not passed yet.
WaitsDatabase(t) ==
    \/ t = "poller" /\ thread_pc[t] \in { "check_idle_store", "flush_store" }
    \/ t = "poller" /\ thread_pc[t] = "switch_store" /\ IsSome(current_session)
    \/ t = "poller" /\ thread_pc[t] = "save_counter"
    \/ t = "ws" /\ thread_pc[t] = "state_store"
    \/ t = "stats" /\ thread_pc[t] = "idle"

\* The thread is at an ACTIVITY_STORE.write() or read() it has not passed yet.
WaitsStore(t) ==
    \/ t = "poller" /\ thread_pc[t] \in { "check_idle", "switch", "save_db" }
    \/ t = "ws" /\ thread_pc[t] = "idle"
    \/ t = "stats" /\ thread_pc[t] = "sum"

\* C34: no two threads are such that one holds the lock of the store and
\* waits for the mutex of DATABASE while the other holds the mutex and waits
\* for the lock of the store.
C34_NoLockOrderDeadlock ==
    \A t, u \in Threads :
       ~ ( /\ t /= u
           /\ HoldsStore(t) /\ WaitsDatabase(t)
           /\ HoldsDatabase(u) /\ WaitsStore(u) )

\* C32: once the shutdown flag is set the polling thread comes to its end,
\* having flushed the counters once more, and the join of the shutdown
\* sequence returns.
C32_PollerTerminatesAfterShutdown ==
    shutdown ~> ( poller.pc = "done" /\ main = "finalize" )

\* The window of the foreground step under way: the one about to be
\* sampled, or the one sampled.
Sampled == IF poller.pc = "foreground" THEN foreground ELSE cycle.hwnd

\* It belongs to a blacklisted process.
SampledBlacklisted ==
    /\ IsSome(Sampled)
    /\ is_blacklisted(cycle.blacklist, ProcessChars(Unwrap(Sampled).process_name))

\* C33: a step of the foreground sample of a window of a blacklisted
\* process leaves the store as it was and does not go on to switch_session,
\* and the sample ends with the window recorded as the last one seen, with
\* its title; every step towards or inside switch_session is for a window
\* that is not blacklisted.
C33_BlacklistedWindowStartsNoSession ==
    [][ /\ ( /\ poller.pc \in { "foreground", "blacklist" }
             /\ poller'.pc /= poller.pc
             /\ SampledBlacklisted )
           => /\ storeVars' = storeVars
              /\ cycle'.steps \in { cycle.steps, Append(cycle.steps, "foreground") }
              /\ poller'.pc \in { "blacklist", "save_counter" }
              /\ poller'.pc = "save_counter" =>
                    /\ poller'.last_hwnd = Some(Unwrap(Sampled).hwnd)
                    /\ poller.pc = "blacklist" =>
                          cycle'.last_title = Unwrap(Sampled).window_title
        /\ ( /\ poller.pc \in { "switch", "switch_store" }
             /\ poller'.pc /= poller.pc )
           => ~ SampledBlacklisted ]_vars

\* The window of a blacklisted process was sampled and is the last one
\* seen, while the session of another window is current.
C33_Witness ==
    /\ poller.pc = "save_counter"
    /\ IsSome(cycle.hwnd)
    /\ SampledBlacklisted
    /\ poller.last_hwnd = Some(Unwrap(cycle.hwnd).hwnd)
    /\ IsSome(current_session)
    /\ Unwrap(current_session).window_handle /= Unwrap(cycle.hwnd).hwnd

\* C35: with a signing key, no row of the log after the first has a null
\* prev_hash, whichever inserts failed: the session that follows a failed
\* insert is chained to the row persisted last.
C35_FailedInsertKeepsChainTip ==
    IsSome(key_manager) =>
        \A i \in 2 .. Len(db_sessions) : IsSome(db_sessions[i].prev_hash)

\* C36: whenever the connection holds the read lock, and a switch_session
\* was completed with no finalize_current_session completed after it, the
\* store it reads has a current session.
C36_ReaderSeesCurrentSession ==
    ( "ws" \in store_lock.readers /\ write_op.present ) =>
        IsSome(current_session)

\* The connection reads the store after an idle split, before any
\* finalize_current_session: the idle slice is current.
C36_Witness ==
    /\ "ws" \in store_lock.readers
    /\ write_op.present
    /\ completed_sessions /= << >>
    /\ IsSome(current_session)
    /\ Unwrap(current_session).is_idle

\* C37: a step that is AddInput(0, 0, 0) leaves every field of the store as
\* it was: the current session, the last input, the history, the
\* aggregates, the pending queues and the media.
C37_EmptyAddInputChangesNothing ==
    [][ ( op'.name = "AddInput" /\ op'.counts = << 0, 0, 0 >> )
           => storeVars' = storeVars ]_vars

\* AddInput(0, 0, 0) was called on an active session whose last input was
\* older than the threshold, where a call with input splits the session.
C37_Witness ==
    /\ op.name = "AddInput" /\ op.counts = << 0, 0, 0 >>
    /\ HadSession
    /\ ~ OldSession.is_idle
    /\ TotalCount(OldSession) > 0
    /\ ObservedGap > AfkThreshold
    /\ current_session = op.pre_session
    /\ last_input_time = op.pre_last_input

\* C38: the sessions enqueued for persistence, in the order they were
\* enqueued, each have their end set, not before their start, and each
\* starts no earlier than the one enqueued before it ended.  (No step of
\* this specification drains the queue: it holds every session enqueued.)
C38_EnqueuedInTimelineOrder ==
    \A i \in 1 .. Len(pending_sessions) :
       /\ IsSome(pending_sessions[i].end_time)
       /\ pending_sessions[i].start_time <= Unwrap(pending_sessions[i].end_time)
       /\ i > 1 => pending_sessions[i].start_time
                      >= Unwrap(pending_sessions[i - 1].end_time)

\* Three sessions in the queue: one ended by a focus change, then the
\* active and the idle slice of a split of the session that followed it.
C38_Witness ==
    /\ Len(pending_sessions) >= 3
    /\ \E i \in 1 .. Len(pending_sessions) - 2 :
          /\ pending_sessions[i + 1].start_time
                >= Unwrap(pending_sessions[i].end_time)
          /\ ~ pending_sessions[i + 1].is_idle
          /\ pending_sessions[i + 2].is_idle
          /\ pending_sessions[i + 2].start_time
                = Unwrap(pending_sessions[i + 1].end_time)
          /\ pending_sessions[i + 2].window_handle
                = pending_sessions[i + 1].window_handle

\* The non-empty ordered lists of session hashes up to the longest one.
NonEmptyHashLists == UNION { [ 1 .. n -> LeafHashes ] : n \in 1 .. MaxHashes }

\* C39: the root built from a non-empty list of session hashes is the root
\* of no other non-empty list: appending, duplicating or removing an entry
\* always changes the daily root.
C39_MerkleRootInjective ==
    ( merkle.built /\ merkle.hashes /= << >> ) =>
        \A other \in NonEmptyHashLists :
            other /= merkle.hashes => build_merkle_root(other) /= merkle.root

\* The record of the greatest date before that of record i of a table, if
\* there is one.
PriorRecord(tbl, i) ==
    LET earlier == { j \in DOMAIN tbl : tbl[j].date < tbl[i].date }
    IN  IF earlier = {} THEN None
        ELSE Some(tbl[CHOOSE j \in earlier :
                          \A k \in earlier : tbl[k].date <= tbl[j].date])

\* C40: once the startup recovery has run with a signing key, every daily
\* record's prev_day_root is the merkle_root of the record of the greatest
\* earlier date, and is absent only in the record of the earliest date.
C40_RecoveredRecordsChainToPrior ==
    ( daily_op.name = "check_and_compute_missing_integrity" /\ IsSome(daily_op.key) ) =>
        \A i \in DOMAIN daily_integrity :
            LET prior == PriorRecord(daily_integrity, i)
            IN  daily_integrity[i].prev_day_root =
                   IF IsSome(prior) THEN Some(Unwrap(prior).merkle_root) ELSE None
=============================================================================
